---- MODULE Spec2Model ----
(***************************************************************************)
(* Correlation propagation, request observation and the append-only JSONL  *)
(* event log of the observability platform.                                *)
(*                                                                         *)
(*   src/src/request_logging.py     _correlation_id, RequestLoggingMiddleware *)
(*   src/src/structured_logging.py  _correlation_id, StructuredLogger      *)
(*   src/src/jsonl_logger.py        log_record, log_records, validate_log  *)
(***************************************************************************)
EXTENDS Integers, Sequences, FiniteSets, TLC

VARIABLES
    rl_correlation_id,  \* request_logging._correlation_id, one value per execution context
    sl_correlation_id,  \* structured_logging._correlation_id, one value per execution context
    got,                \* what the last get_correlation_id() of each context returned, per module
    last_set,           \* history: the value each context last set (None: cleared or never set)
    pc,                 \* position of each context inside RequestLoggingMiddleware.__call__
    req,                \* the locals of the call each context is running
    log_stream,         \* RequestLoggingMiddleware.log_stream: the entries written
    sl_stream,          \* StructuredLogger.stream of the logger the handlers use
    n_calls,            \* number of __call__ invocations started
    n_uuid,             \* number of uuid.uuid4() values drawn
    bound_ids,          \* history: the id bound by each observable call, in call order
    current_log_file,   \* jsonl_logger._current_log_file
    files,              \* the file system: the lines of each log file, when it exists
    dirs,               \* the file system: the directories that exist
    calls,              \* history: the records log_record / log_records wrote, per destination
    validation,         \* what the last validate_log() returned (or raised)
    last_call,          \* the last log_record / log_records call: its input size and outcome
    logger_level,       \* StructuredLogger.level of the logger under observation
    emits,              \* history: the StructuredLogger._log calls that ran, in call order
    clock,              \* the wall clock, in ticks
    new_ids,            \* history: the new_id calls, each with the UUID it drew and its result
    utc_offset,         \* the local time zone of the process: hours east of UTC
    stamp,              \* the last now_iso() call: the instant it ran at and its result
    writers             \* the locals of the log_record / log_records call each writer is running

ctxVars == <<rl_correlation_id, sl_correlation_id, got, last_set>>
mwVars  == <<pc, req, log_stream, sl_stream, n_calls, n_uuid, bound_ids>>
storeVars == <<current_log_file, files, dirs, calls, validation, last_call>>
loggerVars == <<logger_level, emits, clock>>
utilVars == <<new_ids, utc_offset, stamp>>
writerVars == <<writers>>
vars    == <<rl_correlation_id, sl_correlation_id, got, last_set,
             pc, req, log_stream, sl_stream, n_calls, n_uuid, bound_ids,
             current_log_file, files, dirs, calls, validation, last_call,
             logger_level, emits, clock, new_ids, utc_offset, stamp, writers>>

----------------------------------------------------------------------------
(* Bounds *)

\* __call__ invocations explored over all execution contexts
MaxCalls == 2
\* records appended to the log files in all
MaxAppends == 3
\* records in one log_records call
MaxBatch == 2
\* steps (ASGI messages sent, StructuredLogger calls) one handler takes before it ends
MaxHandlerSteps == 1
\* calls of the StructuredLogger under observation
MaxEmits == 2
\* calls of new_id
MaxIds == 2
\* steps a handler takes in the runs that follow the messages it sends
MaxSends == 2
\* lines a log file holds when the validation runs start
MaxLines == 3

----------------------------------------------------------------------------
(* Python values *)

\* Strings and None, kept apart: None is not the string "None".
None      == [s |-> "None", n |-> -1]
Lit(str)  == [s |-> str, n |-> 0]
\* The k-th value drawn from uuid.uuid4(), rendered by str(): 122 random bits,
\* modelled as a value no earlier draw and no caller-chosen string equals.
Uuid(k)   == [s |-> "uuid4", n |-> k]
IsUuid(v) == v.s = "uuid4" /\ v.n >= 1

\* Python truth value of an Optional[str]: None and "" are falsy.
Truthy(v) == v # None /\ v # Lit("")

\* Optional[int]
NoInt     == [some |-> FALSE, val |-> 0]
PyInt(i)  == [some |-> TRUE, val |-> i]

\* The execution contexts (asyncio tasks or threads): each has its own copy of
\* every ContextVar.
Contexts == {"ctx1", "ctx2"}
Modules  == {"request_logging", "structured_logging"}
IdA == Lit("A")
IdB == Lit("B")
SetIds == {IdA, IdB}

----------------------------------------------------------------------------
(* CorrelationContext: the ContextVar of each module *)

\* A single shared cell instead of a ContextVar: a set is seen by every context.
set_shared_cell(cv, c, id) == [x \in DOMAIN cv |-> id]

\* _correlation_id.get()
get_correlation_id(cv, c) == cv[c]

\* _correlation_id.set(correlation_id)
set_correlation_id(cv, c, id) == [cv EXCEPT ![c] = id]

\* _correlation_id.set(None)
clear_correlation_id(cv, c) == set_correlation_id(cv, c, None)

CvOf(m) == IF m = "request_logging" THEN rl_correlation_id ELSE sl_correlation_id

\* One module's variable changes to nv, the other module's is left alone.
CvUpdate(m, nv) ==
    /\ rl_correlation_id' = IF m = "request_logging" THEN nv ELSE rl_correlation_id
    /\ sl_correlation_id' = IF m = "structured_logging" THEN nv ELSE sl_correlation_id

\* No get_correlation_id() since the context's last set or clear.
NotRead == [read |-> FALSE, v |-> None]

\* Application code in context c calls module m's set_correlation_id(id).
CtxSet(m, c, id) ==
    /\ CvUpdate(m, set_correlation_id(CvOf(m), c, id))
    /\ last_set' = [last_set EXCEPT ![m][c] = id]
    /\ got' = [got EXCEPT ![m][c] = NotRead]

\* Application code in context c calls module m's clear_correlation_id().
CtxClear(m, c) ==
    /\ CvUpdate(m, clear_correlation_id(CvOf(m), c))
    /\ last_set' = [last_set EXCEPT ![m][c] = None]
    /\ got' = [got EXCEPT ![m][c] = NotRead]

\* Application code in context c calls module m's get_correlation_id().
CtxGet(m, c) ==
    /\ got' = [got EXCEPT ![m][c] = [read |-> TRUE, v |-> get_correlation_id(CvOf(m), c)]]
    /\ UNCHANGED <<rl_correlation_id, sl_correlation_id, last_set>>

CtxInit ==
    /\ rl_correlation_id = [c \in Contexts |-> None]
    /\ sl_correlation_id = [c \in Contexts |-> None]
    /\ got = [m \in Modules |-> [c \in Contexts |-> NotRead]]
    /\ last_set = [m \in Modules |-> [c \in Contexts |-> None]]

----------------------------------------------------------------------------
(* RequestLoggingMiddleware: inputs *)

Hdr(n, v) == [name |-> n, value |-> v]

\* scope["headers"]: lists of (name, value) pairs. Values are the text the
\* bytes decode to (value.decode("utf-8")).
HeaderInputs ==
    { <<>>,
      <<Hdr("X-Correlation-ID", Lit("abc-123"))>>,
      <<Hdr("x-correlation-id", Lit("abc-123"))>>,
      <<Hdr("X-Correlation-ID", Lit(""))>>,
      <<Hdr("X-Request-ID", Lit("abc-123"))>>,
      <<Hdr("X-Correlation-ID", Lit("")), Hdr("x-correlation-id", Lit("v2"))>>,
      <<Hdr("X-Correlation-ID", Lit("v1")), Hdr("X-Correlation-ID", Lit("v2"))>> }

Scope(t, p, h) == [type |-> t, method |-> Lit("GET"), path |-> p, headers |-> h]

\* The scopes of the inbound calls: requests for /api with every header list, a
\* health check, and a lifespan call (no path, no headers).
ScopeInputs ==
    { Scope("http", Lit("/api"), h) : h \in HeaderInputs }
    \cup { Scope("http", Lit("/health"), <<>>),
           Scope("http", Lit("/health"), <<Hdr("X-Correlation-ID", Lit("abc-123"))>>),
           Scope("lifespan", Lit("/"), <<>>) }

CoreScopes ==
    { Scope("http", Lit("/api"), <<>>),
      Scope("http", Lit("/api"), <<Hdr("X-Correlation-ID", Lit("abc-123"))>>),
      Scope("http", Lit("/health"), <<>>) }

\* The middleware under observation: RequestLoggingMiddleware(app, log_stream,
\* exclude_paths=["/health"]).
exclude_paths == {Lit("/health")}

\* bytes.lower() on the header names that occur
Lower(name) ==
    CASE name = "X-Correlation-ID" -> "x-correlation-id"
      [] name = "x-correlation-id" -> "x-correlation-id"
      [] name = "X-Request-ID"     -> "x-request-id"
      [] OTHER                     -> name

\* dict(pairs): a repeated key keeps its first position and takes the last value.
RECURSIVE PyDict(_)
PyDict(pairs) ==
    IF pairs = <<>> THEN <<>>
    ELSE LET init == PyDict(SubSeq(pairs, 1, Len(pairs) - 1))
             p    == pairs[Len(pairs)]
         IN IF \E i \in 1..Len(init) : init[i].name = p.name
            THEN [i \in 1..Len(init) |->
                     IF init[i].name = p.name THEN p ELSE init[i]]
            ELSE Append(init, p)

\* Exact-case comparison of the header name: no key.lower().
get_correlation_id_exact_case(headers) ==
    IF \E i \in 1..Len(headers) : headers[i].name = "x-correlation-id"
    THEN headers[CHOOSE i \in 1..Len(headers) :
                    /\ headers[i].name = "x-correlation-id"
                    /\ \A j \in 1..(i - 1) : headers[j].name # "x-correlation-id"].value
    ELSE None

\* RequestLoggingMiddleware._get_correlation_id_from_headers(headers), headers a dict
get_correlation_id_from_headers(headers) ==
    IF \E i \in 1..Len(headers) : Lower(headers[i].name) = "x-correlation-id"
    THEN headers[CHOOSE i \in 1..Len(headers) :
                    /\ Lower(headers[i].name) = "x-correlation-id"
                    /\ \A j \in 1..(i - 1) : Lower(headers[j].name) # "x-correlation-id"].value
    ELSE None

\* uuid4() that returns one and the same value on every call.
uuid4_constant(k) == Uuid(1)

\* str(uuid.uuid4()), the (k+1)-th draw
uuid4(k) == Uuid(k + 1)

----------------------------------------------------------------------------
(* StructuredLogger *)

\* StructuredLogger.LOG_LEVELS
LOG_LEVELS == [DEBUG |-> 10, INFO |-> 20, WARNING |-> 30, ERROR |-> 40, CRITICAL |-> 50]

\* str.upper() on the level names in use; a name already in upper case, the
\* empty one included, is returned as it is
upper(level) ==
    CASE level \in {"debug", "Debug"}       -> "DEBUG"
      [] level \in {"info", "Info"}         -> "INFO"
      [] level \in {"warning", "Warning"}   -> "WARNING"
      [] level \in {"error", "Error"}       -> "ERROR"
      [] level \in {"critical", "Critical"} -> "CRITICAL"
      [] level \in {"trace", "Trace"}       -> "TRACE"
      [] OTHER                              -> level

\* LOG_LEVELS.get(level.upper(), 10): a name that is no key counts as DEBUG.
LevelValueDefaultDebug(level) ==
    IF upper(level) \in DOMAIN LOG_LEVELS THEN LOG_LEVELS[upper(level)] ELSE 10

\* StructuredLogger.LOG_LEVELS.get(level.upper(), 20)
LevelValue(level) ==
    IF upper(level) \in DOMAIN LOG_LEVELS THEN LOG_LEVELS[upper(level)] ELSE 20

\* level.lower()
LevelLower(level) ==
    CASE upper(level) = "DEBUG"    -> "debug"
      [] upper(level) = "INFO"     -> "info"
      [] upper(level) = "WARNING"  -> "warning"
      [] upper(level) = "ERROR"    -> "error"
      [] upper(level) = "CRITICAL" -> "critical"
      [] upper(level) = "TRACE"    -> "trace"
      [] OTHER                     -> level

\* _should_log with > in place of >=: the threshold level itself is cut off.
should_log_strict(threshold, level) == LevelValue(level) > LevelValue(threshold)

\* StructuredLogger._should_log(level), for a logger whose threshold is `threshold`
should_log(threshold, level) == LevelValue(level) >= LevelValue(threshold)

\* datetime.now(timezone.utc).isoformat() when the clock shows tick t
utc_isoformat(t) == [s |-> "utc", n |-> t]

\* dict.update(kwargs): the caller's fields are added and shadow the fixed ones.
DictUpdate(d, kwargs) ==
    [k \in DOMAIN d \cup DOMAIN kwargs |-> IF k \in DOMAIN kwargs THEN kwargs[k] ELSE d[k]]

NoKwargs == [k \in {} |-> None]

\* The lines StructuredLogger._log(level, event, **kwargs) adds to its stream when
\* called in context c: none below the threshold, one entry otherwise.
sl_log(name, threshold, c, level, event, kwargs) ==
    IF ~should_log(threshold, level) THEN <<>>
    ELSE << DictUpdate(
              [timestamp      |-> utc_isoformat(clock),
               level          |-> Lit(LevelLower(level)),
               logger         |-> Lit(name),
               logger_name    |-> Lit(name),
               event          |-> Lit(event),
               correlation_id |-> get_correlation_id(sl_correlation_id, c)],
              kwargs) >>

----------------------------------------------------------------------------
(* RequestLoggingMiddleware.__call__ *)

\* Failures. HandlerError and SinkError are Exceptions; CancelledError derives
\* from BaseException only (asyncio.CancelledError since Python 3.8).
HandlerFailures == {"HandlerError", "CancelledError"}
IsException(e) == e \in {"HandlerError", "SinkError"}
\* str(e)
StrOf(e) ==
    CASE e = "HandlerError" -> Lit("boom")
      [] e = "SinkError"    -> Lit("I/O operation on closed file")
      [] OTHER              -> Lit("")

\* ASGI messages a handler sends; status NoInt: the message has no "status" key.
Messages ==
    { [type |-> "http.response.start", status |-> PyInt(200)],
      [type |-> "http.response.start", status |-> NoInt],
      [type |-> "http.response.body",  status |-> NoInt] }

CoreMessages == { [type |-> "http.response.start", status |-> PyInt(200)] }

IdleReq ==
    [mode |-> "none",
     scope |-> [type |-> "none", method |-> None, path |-> None, headers |-> <<>>],
     correlation_id |-> None, generated |-> FALSE, response_status |-> NoInt,
     app_send |-> "none", handler |-> "none", exc |-> "none",
     ctx_before |-> None, n_steps |-> 0, written |-> <<>>, emitted |-> <<>>,
     sent |-> <<>>, forwarded |-> <<>>, invoked |-> 0]

\* Only the scope type decides: the exclusion list is not consulted.
PassThroughTypeOnly(scope) == scope.type \notin {"http"}

\* Lines 89 and 99: the call is forwarded untouched.
PassThrough(scope) == scope.type \notin {"http"} \/ scope.path \in exclude_paths

\* RequestLoggingMiddleware._log_request: the entry of a completed request
log_request_entry(method, path, status, correlation_id) ==
    [method |-> method, path |-> path, status |-> status, status_code |-> status,
     duration_ms |-> "elapsed", correlation_id |-> correlation_id]

\* RequestLoggingMiddleware._log_error: the entry of a failed request
log_error_entry(method, path, error, correlation_id) ==
    [method |-> method, path |-> path, error |-> error, exception |-> error,
     duration_ms |-> "elapsed", correlation_id |-> correlation_id]

\* RequestLoggingMiddleware._write_log: the stream after the call. ok is FALSE when
\* json.dumps or the write to the stream raises (a closed stream, a broken pipe, a
\* value json cannot serialise): nothing is written and the failure propagates.
write_log(stream, entry, ok) == IF ok THEN Append(stream, entry) ELSE stream

\* What a step appended to the sink
Appended(old, new) == SubSeq(new, Len(old) + 1, Len(new))

\* The call goes on to the handler without set_correlation_id(correlation_id).
MwSkipSetCtx(c, id) ==
    /\ last_set' = [last_set EXCEPT !["request_logging"][c] = id]
    /\ UNCHANGED <<rl_correlation_id, sl_correlation_id, got>>

\* Line 109: set_correlation_id(correlation_id)
MwSetCtx(c, id) ==
    /\ rl_correlation_id' = set_correlation_id(rl_correlation_id, c, id)
    /\ last_set' = [last_set EXCEPT !["request_logging"][c] = id]
    /\ UNCHANGED <<sl_correlation_id, got>>

\* A second await self.app(...) after the first: the handler runs again.
await_app_again(n) == n + 2

\* await self.app(scope, receive, send) (lines 90 and 100) or
\* await self.app(scope, receive, send_wrapper) (line 123): the number of
\* invocations of the wrapped app after it
await_app(n) == n + 1

\* Lines 89-113: up to the point where the wrapped app has been invoked.
Call(c, scope) ==
    /\ pc[c] = "idle"
    /\ n_calls < MaxCalls
    /\ n_calls' = n_calls + 1
    /\ pc' = [pc EXCEPT ![c] = "app"]
    /\ IF PassThrough(scope)
       THEN /\ req' = [req EXCEPT ![c] =
                         [IdleReq EXCEPT !.mode = "pass",
                                         !.scope = scope, !.app_send = "send",
                                         !.handler = "running",
                                         !.invoked = await_app(0),
                                         !.ctx_before = rl_correlation_id[c]]]
            /\ bound_ids' = Append(bound_ids, [id |-> None, generated |-> FALSE])
            /\ UNCHANGED <<ctxVars, n_uuid>>
       ELSE LET found == get_correlation_id_from_headers(PyDict(scope.headers))
                gen   == ~Truthy(found)
                cid   == IF gen THEN uuid4(n_uuid) ELSE found
            IN /\ n_uuid' = IF gen THEN n_uuid + 1 ELSE n_uuid
               /\ MwSetCtx(c, cid)
               /\ req' = [req EXCEPT ![c] =
                            [IdleReq EXCEPT !.mode = "obs",
                                            !.scope = scope, !.app_send = "send_wrapper",
                                            !.handler = "running",
                                            !.invoked = await_app(0),
                                            !.correlation_id = cid, !.generated = gen,
                                            !.ctx_before = rl_correlation_id[c]]]
               /\ bound_ids' = Append(bound_ids, [id |-> cid, generated |-> gen])
    /\ UNCHANGED <<log_stream, sl_stream>>
    /\ UNCHANGED <<storeVars, loggerVars, utilVars, writerVars>>

\* send_wrapper (lines 115-119): the status the middleware holds after `message`
send_wrapper(status, message) ==
    IF message.type = "http.response.start"
    THEN (IF message.status.some THEN message.status ELSE PyInt(0))
    ELSE status

\* send_wrapper that keeps the response-start message to itself.
forward_body_only(out, message) ==
    IF message.type = "http.response.start" THEN out ELSE Append(out, message)

\* await send(message) (line 119, or the app calling send itself when the call
\* passes through): what the caller's send has received after it
forward(out, message) == Append(out, message)

\* The wrapped app sends a message through the send it was given; it takes at
\* most `limit` steps before it ends.
HandlerSend(c, message, limit) ==
    /\ pc[c] = "app"
    /\ req[c].n_steps < limit
    /\ req' = [req EXCEPT ![c].n_steps = @ + 1,
                          ![c].response_status =
                              IF req[c].app_send = "send_wrapper"
                              THEN send_wrapper(@, message) ELSE @,
                          ![c].sent = Append(@, message),
                          ![c].forwarded = forward(@, message)]
    /\ UNCHANGED <<ctxVars, pc, log_stream, sl_stream, n_calls, n_uuid, bound_ids>>
    /\ UNCHANGED <<storeVars, loggerVars, utilVars, writerVars>>

\* The wrapped app logs through its StructuredLogger("handler", level="INFO").
HandlerEmit(c, limit) ==
    /\ pc[c] = "app"
    /\ req[c].n_steps < limit
    /\ LET lines == sl_log("handler", "INFO", c, "INFO", "handling", NoKwargs)
       IN /\ sl_stream' = sl_stream \o lines
          /\ req' = [req EXCEPT ![c].n_steps = @ + 1, ![c].emitted = @ \o lines]
    /\ UNCHANGED <<ctxVars, pc, log_stream, n_calls, n_uuid, bound_ids>>
    /\ UNCHANGED <<storeVars, loggerVars, utilVars, writerVars>>

\* await self.app(...) returns normally (line 123, or 90/100 when passing through).
AppReturn(c) ==
    /\ pc[c] = "app"
    /\ req' = [req EXCEPT ![c].handler = "returned"]
    /\ pc' = [pc EXCEPT ![c] = IF req[c].mode = "pass" THEN "done" ELSE "after_app"]
    /\ UNCHANGED <<ctxVars, log_stream, sl_stream, n_calls, n_uuid, bound_ids>>
    /\ UNCHANGED <<storeVars, loggerVars, utilVars, writerVars>>

\* await self.app(...) raises e: caught at line 136 when e is an Exception.
AppRaise(c, e) ==
    /\ pc[c] = "app"
    /\ req' = [req EXCEPT ![c].handler = e, ![c].exc = e]
    /\ pc' = [pc EXCEPT ![c] =
                IF req[c].mode = "pass" THEN "done"
                ELSE IF IsException(e) THEN "except" ELSE "finally"]
    /\ UNCHANGED <<ctxVars, log_stream, sl_stream, n_calls, n_uuid, bound_ids>>
    /\ UNCHANGED <<storeVars, loggerVars, utilVars, writerVars>>

\* Lines 125-135: _log_request; a failure of the write is caught at line 136.
LogRequest(c, ok) ==
    /\ pc[c] = "after_app"
    /\ log_stream' = write_log(log_stream,
                               log_request_entry(req[c].scope.method, req[c].scope.path,
                                                 req[c].response_status,
                                                 req[c].correlation_id), ok)
    /\ req' = [req EXCEPT ![c].written = @ \o Appended(log_stream, log_stream'),
                          ![c].exc = IF ok THEN "none" ELSE "SinkError"]
    /\ pc' = [pc EXCEPT ![c] = IF ok THEN "finally" ELSE "except"]
    /\ UNCHANGED <<ctxVars, sl_stream, n_calls, n_uuid, bound_ids>>
    /\ UNCHANGED <<storeVars, loggerVars, utilVars, writerVars>>

\* Lines 136-148: _log_error(error=str(e)), then raise; a failure of the write
\* leaves the except block in place of e.
LogError(c, ok) ==
    /\ pc[c] = "except"
    /\ log_stream' = write_log(log_stream,
                               log_error_entry(req[c].scope.method, req[c].scope.path,
                                               StrOf(req[c].exc), req[c].correlation_id), ok)
    /\ req' = [req EXCEPT ![c].written = @ \o Appended(log_stream, log_stream'),
                          ![c].exc = IF ok THEN @ ELSE "SinkError"]
    /\ pc' = [pc EXCEPT ![c] = "finally"]
    /\ UNCHANGED <<ctxVars, sl_stream, n_calls, n_uuid, bound_ids>>
    /\ UNCHANGED <<storeVars, loggerVars, utilVars, writerVars>>

\* A clear that runs on the normal path only (not in a finally block).
FinallyOnSuccessOnly(c) ==
    /\ pc[c] = "finally"
    /\ IF req[c].exc = "none"
       THEN MwSetCtx(c, None)
       ELSE UNCHANGED ctxVars
    /\ pc' = [pc EXCEPT ![c] = "done"]
    /\ UNCHANGED <<req, log_stream, sl_stream, n_calls, n_uuid, bound_ids>>
    /\ UNCHANGED <<storeVars, loggerVars, utilVars, writerVars>>

\* Lines 149-151: clear_correlation_id(), then control leaves __call__.
Finally(c) ==
    /\ pc[c] = "finally"
    /\ rl_correlation_id' = clear_correlation_id(rl_correlation_id, c)
    /\ last_set' = [last_set EXCEPT !["request_logging"][c] = None]
    /\ UNCHANGED <<sl_correlation_id, got>>
    /\ pc' = [pc EXCEPT ![c] = "done"]
    /\ UNCHANGED <<req, log_stream, sl_stream, n_calls, n_uuid, bound_ids>>
    /\ UNCHANGED <<storeVars, loggerVars, utilVars, writerVars>>

\* The caller has the outcome of the call and goes on.
Resume(c) ==
    /\ pc[c] = "done"
    /\ pc' = [pc EXCEPT ![c] = "idle"]
    /\ req' = [req EXCEPT ![c] = IdleReq]
    /\ UNCHANGED <<ctxVars, log_stream, sl_stream, n_calls, n_uuid, bound_ids>>
    /\ UNCHANGED <<storeVars, loggerVars, utilVars, writerVars>>

\* Code of context c outside any request binds an id itself.
AppSet(c) ==
    /\ pc[c] = "idle"
    /\ rl_correlation_id[c] = None
    /\ CtxSet("request_logging", c, IdA)
    /\ UNCHANGED mwVars
    /\ UNCHANGED <<storeVars, loggerVars, utilVars, writerVars>>

\* The wrapped app of an observable call is a RequestLoggingMiddleware itself
\* (one instance wrapping another, same stream): the handler step is a whole
\* inner __call__ on the same scope in the same context, whose own handler
\* returns without sending: the id is resolved and bound (lines 103-109), the
\* entry is written (lines 125-135), the id is cleared (lines 149-151).
NestedCall(c, limit) ==
    /\ pc[c] = "app"
    /\ req[c].mode = "obs"
    /\ req[c].n_steps < limit
    /\ n_calls < MaxCalls
    /\ n_calls' = n_calls + 1
    /\ LET scope == req[c].scope
           found == get_correlation_id_from_headers(PyDict(scope.headers))
           gen   == ~Truthy(found)
           cid   == IF gen THEN uuid4(n_uuid) ELSE found
       IN /\ n_uuid' = IF gen THEN n_uuid + 1 ELSE n_uuid
          /\ bound_ids' = Append(bound_ids, [id |-> cid, generated |-> gen])
          /\ log_stream' = write_log(log_stream,
                                     log_request_entry(scope.method, scope.path, NoInt, cid),
                                     TRUE)
          /\ rl_correlation_id' =
                 clear_correlation_id(set_correlation_id(rl_correlation_id, c, cid), c)
          /\ last_set' = [last_set EXCEPT !["request_logging"][c] = None]
    /\ req' = [req EXCEPT ![c].n_steps = @ + 1]
    /\ UNCHANGED <<sl_correlation_id, got, pc, sl_stream>>
    /\ UNCHANGED <<storeVars, loggerVars, utilVars, writerVars>>

MwInit ==
    /\ pc = [c \in Contexts |-> "idle"]
    /\ req = [c \in Contexts |-> IdleReq]
    /\ log_stream = <<>>
    /\ sl_stream = <<>>
    /\ n_calls = 0
    /\ n_uuid = 0
    /\ bound_ids = <<>>


----------------------------------------------------------------------------
(* EventLogStore: Python values and their JSON form *)

\* Python values of record fields: a tag and the strings the value holds.
PStr(x)   == [t |-> "str",      v |-> <<x>>]
PNone     == [t |-> "NoneType", v |-> <<>>]
PList(q)  == [t |-> "list",     v |-> q]
PTuple(q) == [t |-> "tuple",    v |-> q]
\* A value json has no representation for (a Path, a datetime); x is str(value).
PObj(x)   == [t |-> "object",   v |-> <<x>>]

Field(k, val) == [k |-> k, v |-> val]

\* JSON values
JString(x) == [j |-> "string", v |-> <<x>>]
JNull      == [j |-> "null",   v |-> <<>>]
JArray(q)  == [j |-> "array",  v |-> q]

\* json.dumps(value, default=lambda o: None): no textual fallback.
json_dumps_value_null_fallback(pv) ==
    CASE pv.t = "str"             -> JString(pv.v[1])
      [] pv.t \in {"list", "tuple"} -> JArray(pv.v)
      [] OTHER                    -> JNull

\* json.dumps(value, default=str) of one field value
json_dumps_value(pv) ==
    CASE pv.t = "str"             -> JString(pv.v[1])
      [] pv.t = "NoneType"        -> JNull
      [] pv.t \in {"list", "tuple"} -> JArray(pv.v)
      [] OTHER                    -> JString(pv.v[1])

\* json.loads of one field value
json_loads_value(jv) ==
    CASE jv.j = "string" -> PStr(jv.v[1])
      [] jv.j = "null"   -> PNone
      [] OTHER           -> PList(jv.v)

\* json.dumps(record, separators=(",", ":"), default=str) + "\n": one line
\* holding one JSON object, the fields in the order of the dict.
json_dumps(record) ==
    [kind |-> "object",
     doc  |-> [i \in 1..Len(record) |-> Field(record[i].k, json_dumps_value(record[i].v))]]

\* json.loads(line) of a line that holds a JSON object: the dict read back
json_loads(line) ==
    [i \in 1..Len(line.doc) |-> Field(line.doc[i].k, json_loads_value(line.doc[i].v))]

\* dict.get(key, default)
DictGet(d, key, default) ==
    IF \E i \in 1..Len(d) : d[i].k = key
    THEN d[CHOOSE i \in 1..Len(d) : d[i].k = key].v
    ELSE default

\* hash(value) raises TypeError for a list
Hashable(pv) == pv.t # "list"

\* The records the callers append
RecordInputs ==
    { <<Field("record_type", PStr("step"))>>,
      <<Field("record_type", PStr("trace")), Field("file", PObj("/tmp/x")),
        Field("span", PTuple(<<"1", "2">>))>>,
      <<Field("event", PStr("started"))>>,
      <<Field("record_type", PNone)>>,
      <<Field("record_type", PList(<<"a", "b">>))>> }

RECURSIVE SeqsUpTo(_, _)
\* The lists of at most n elements of S
SeqsUpTo(S, n) ==
    IF n = 0 THEN {<<>>}
    ELSE LET shorter == SeqsUpTo(S, n - 1)
         IN shorter \cup { Append(q, x) : q \in shorter, x \in S }

----------------------------------------------------------------------------
(* EventLogStore: the destination and the file system *)

DefaultLogFile == "logs/system_observability_log.jsonl"
CustomLogFile  == "tmp/run/test_log.jsonl"
LogFiles == {DefaultLogFile, CustomLogFile}
NoPath == "None"

\* log_file.parent and its own parents
ParentChain(path) ==
    IF path = DefaultLogFile THEN {"logs"} ELSE {"tmp", "tmp/run"}

Absent == [exists |-> FALSE, lines |-> <<>>]

\* _get_log_file() that ignores _current_log_file.
get_log_file_default == DefaultLogFile

\* _get_log_file()
get_log_file == IF current_log_file # NoPath THEN current_log_file ELSE DefaultLogFile

\* set_log_file(path)
set_log_file(path) ==
    /\ current_log_file' = path
    /\ validation' = [called |-> FALSE]
    /\ UNCHANGED <<files, dirs, calls, last_call>>

\* reset_log_file()
reset_log_file ==
    /\ current_log_file' = NoPath
    /\ validation' = [called |-> FALSE]
    /\ UNCHANGED <<files, dirs, calls, last_call>>

\* log_file.parent.mkdir(exist_ok=True) without parents=True, as far as it gets:
\* the parent alone.
mkdir_parent_only(ds, path) ==
    ds \cup (IF path = DefaultLogFile THEN {"logs"} ELSE {"tmp/run"})

\* log_file.parent.mkdir(parents=True, exist_ok=True): the directories afterwards
mkdir_parents(ds, path) == ds \cup ParentChain(path)

\* ensure_log_directory()
ensure_log_directory ==
    /\ dirs' = mkdir_parents(dirs, get_log_file)
    /\ UNCHANGED <<current_log_file, files, calls, validation, last_call>>

\* open(log_file, "w") in place of "a": the file is truncated before the writes.
open_truncate_write(file, lines) == [exists |-> TRUE, lines |-> lines]

\* open(log_file, "a"); f.write(line) for each line; close: the file afterwards
open_append_write(file, lines) == [exists |-> TRUE, lines |-> file.lines \o lines]

\* The loop of log_records running over reversed(records).
dump_lines_reversed(records) ==
    [i \in 1..Len(records) |-> json_dumps(records[Len(records) + 1 - i])]

\* The loop of log_records: one line per record, in the order of the list
dump_lines(records) == [i \in 1..Len(records) |-> json_dumps(records[i])]

AppendedSoFar == Len(calls[DefaultLogFile]) + Len(calls[CustomLogFile])

\* What the operating system answers to the I/O of one call: every step works
\* ("none"), or mkdir fails, or open fails, or the write of record number `at`
\* fails with nothing of that record reaching the file.
Io(fail, at) == [fail |-> fail, at |-> at]
IoOk == Io("none", 0)
IoInputs(n) == {IoOk, Io("mkdir", 0), Io("open", 0)} \cup { Io("write", k) : k \in 1..n }

\* A try/except OSError: pass around the I/O: the failure stays inside the call.
raised_swallowed(io) == "none"

\* log_record and log_records have no try/except: the OSError of a failing step
\* leaves the call.
raised_by(io) == IF io.fail = "none" THEN "none" ELSE "OSError"

\* The file system after the body of log_record(record) ran on files fs and
\* directories ds with destination path: mkdir, then open for append, then one write.
write_record(fs, ds, path, record, io) ==
    CASE io.fail = "mkdir" -> [files |-> fs, dirs |-> ds, written |-> 0]
      [] io.fail = "open"  -> [files |-> fs, dirs |-> mkdir_parents(ds, path), written |-> 0]
      [] io.fail = "write" ->
            [files |-> [fs EXCEPT ![path] = open_append_write(@, <<>>)],
             dirs |-> mkdir_parents(ds, path), written |-> 0]
      [] OTHER ->
            [files |-> [fs EXCEPT ![path] = open_append_write(@, <<json_dumps(record)>>)],
             dirs |-> mkdir_parents(ds, path), written |-> 1]

\* The file system after the body of log_records(records) ran: mkdir, then one
\* open for append, then one write per record until a write fails.
write_records(fs, ds, path, records, io) ==
    LET n == IF io.fail = "write" THEN io.at - 1 ELSE Len(records)
    IN CASE io.fail = "mkdir" -> [files |-> fs, dirs |-> ds, written |-> 0]
         [] io.fail = "open"  -> [files |-> fs, dirs |-> mkdir_parents(ds, path), written |-> 0]
         [] OTHER ->
               [files |-> [fs EXCEPT ![path] =
                              open_append_write(@, dump_lines(SubSeq(records, 1, n)))],
                dirs |-> mkdir_parents(ds, path), written |-> n]

NoCall == [op |-> "none", n |-> 0, io |-> IoOk, raised |-> "none", written |-> 0]

\* log_record(record), the operating system answering io
log_record(record, io) ==
    /\ AppendedSoFar < MaxAppends
    /\ LET after == write_record(files, dirs, get_log_file, record, io)
       IN /\ dirs' = after.dirs
          /\ files' = after.files
          /\ calls' = [calls EXCEPT ![get_log_file] = @ \o SubSeq(<<record>>, 1, after.written)]
          /\ last_call' = [op |-> "log_record", n |-> 1, io |-> io,
                           raised |-> raised_by(io), written |-> after.written]
    /\ validation' = [called |-> FALSE]
    /\ UNCHANGED current_log_file

\* log_records(records), the operating system answering io
log_records(records, io) ==
    /\ AppendedSoFar + Len(records) <= MaxAppends
    /\ LET after == write_records(files, dirs, get_log_file, records, io)
       IN /\ dirs' = after.dirs
          /\ files' = after.files
          /\ calls' = [calls EXCEPT ![get_log_file] = @ \o SubSeq(records, 1, after.written)]
          /\ last_call' = [op |-> "log_records", n |-> Len(records), io |-> io,
                           raised |-> raised_by(io), written |-> after.written]
    /\ validation' = [called |-> FALSE]
    /\ UNCHANGED current_log_file

\* The result validate_log starts from (lines 165-170)
EmptyResult ==
    [called |-> TRUE, raised |-> "none", total_records |-> 0, record_types |-> <<>>,
     error_count |-> 0, errors |-> <<>>]

\* result["record_types"][record_type] = result["record_types"].get(record_type, 0) + 1
CountType(types, record_type) ==
    IF \E i \in 1..Len(types) : types[i].k = record_type
    THEN [i \in 1..Len(types) |->
             IF types[i].k = record_type THEN Field(types[i].k, types[i].v + 1) ELSE types[i]]
    ELSE Append(types, Field(record_type, 1))

\* The body of validate_log's loop for one line that parses (lines 182-189): the
\* record is counted, then its record_type; an unhashable record_type makes the
\* dict lookup raise TypeError, which nothing catches.
validate_line(result, line) ==
    LET record      == json_loads(line)
        record_type == DictGet(record, "record_type", PStr("unknown"))
        counted     == [result EXCEPT !.total_records = @ + 1]
    IN IF Hashable(record_type)
       THEN [counted EXCEPT !.record_types = CountType(@, record_type)]
       ELSE [counted EXCEPT !.raised = "TypeError"]

\* n times the character ch
Repeat(ch, n) == [i \in 1..n |-> ch]

\* Lines a log file can hold that no log_record wrote, as the characters read
\* from the file, line end included: text that is not JSON (another writer, a
\* torn write), short or long and indented, a line of white space only and an
\* empty line.
GarbageLine == [kind |-> "garbage", doc |-> <<>>,
                text |-> <<"n", "o", "t", " ", "j", "s", "o", "n", "\n">>]
LongLine    == [kind |-> "garbage", doc |-> <<>>,
                text |-> <<" ", " ", " ">> \o Repeat("x", 100) \o <<"y", "z", " ", "\n">>]
BlankLine   == [kind |-> "blank",   doc |-> <<>>, text |-> <<" ", "\t", "\n">>]
EmptyLine   == [kind |-> "blank",   doc |-> <<>>, text |-> <<"\n">>]

\* A line that is JSON but no object: json.loads returns an int, which has no
\* get (the same holds for a string, a list and null).
ScalarLine  == [kind |-> "scalar",  doc |-> <<>>, text |-> <<"4", "2", "\n">>]

\* Lines 182-186 for a line that json.loads reads as something else than a
\* dict: the line is counted, then record.get raises AttributeError, which
\* nothing catches.
validate_scalar_line(result) ==
    [result EXCEPT !.total_records = @ + 1, !.raised = "AttributeError"]

\* The characters str.strip() removes
Whitespace == {" ", "\t", "\n", "\r"}

RECURSIVE lstrip(_)
lstrip(text) ==
    IF text # <<>> /\ Head(text) \in Whitespace THEN lstrip(Tail(text)) ELSE text

RECURSIVE rstrip(_)
rstrip(text) ==
    IF text # <<>> /\ text[Len(text)] \in Whitespace
    THEN rstrip(SubSeq(text, 1, Len(text) - 1))
    ELSE text

\* line.strip() (line 178)
strip(text) == rstrip(lstrip(text))

\* The characters of a line that an error report keeps (line 195)
ContentChars == 100

\* A report that keeps the whole line
whole_line(text, n) == text

\* text[:n]
first_chars(text, n) == SubSeq(text, 1, IF Len(text) < n THEN Len(text) ELSE n)

\* The except json.JSONDecodeError branch (lines 190-197) for line number
\* line_num, `line` being the line as line 178 left it
validate_bad_line(result, line, line_num) ==
    [result EXCEPT !.error_count = @ + 1,
                   !.errors = Append(@, [line |-> line_num, error |-> "Expecting value",
                                         content |-> first_chars(line, ContentChars)])]

\* One turn of validate_log's loop (lines 177-197): the line is stripped; a
\* line with nothing left is skipped, a line that does not parse is reported, a
\* line that parses is counted.
validate_one(result, line, line_num) ==
    IF line.kind = "object" THEN validate_line(result, line)
    ELSE LET stripped == strip(line.text)
         IN IF stripped = <<>> THEN result
            ELSE IF line.kind = "scalar" THEN validate_scalar_line(result)
            ELSE validate_bad_line(result, stripped, line_num)

RECURSIVE validate_from(_, _, _)
\* The loop from line number line_num on, `lines` being the lines still to read
validate_from(result, lines, line_num) ==
    IF lines = <<>> \/ result.raised # "none" THEN result
    ELSE validate_from(validate_one(result, Head(lines), line_num), Tail(lines), line_num + 1)

\* The loop of validate_log over the lines of the file (lines 176-197)
validate_lines(result, lines) == validate_from(result, lines, 1)

\* validate_log without the exists() test: open() of a missing file raises.
validate_file_unchecked(file) ==
    IF ~file.exists THEN [EmptyResult EXCEPT !.raised = "FileNotFoundError"]
    ELSE validate_lines(EmptyResult, file.lines)

\* validate_log() on a destination in state `file`
validate_file(file) ==
    IF ~file.exists THEN EmptyResult
    ELSE validate_lines(EmptyResult, file.lines)

\* What validate_log() returns for the current destination
validate_result == validate_file(files[get_log_file])

\* validate_log() opening the file with "a+" in place of "r": the open creates
\* a file that is not there.
validate_log_creating ==
    /\ validation' = validate_result
    /\ files' = [files EXCEPT ![get_log_file].exists = TRUE]
    /\ UNCHANGED <<current_log_file, dirs, calls, last_call>>

\* validate_log()
validate_log ==
    /\ validation' = validate_result
    /\ UNCHANGED <<current_log_file, files, dirs, calls, last_call>>

\* LOG_FILE = _DEFAULT_LOG_FILE (line 53): bound once, when the module is loaded
LOG_FILE == DefaultLogFile

\* main() with --clear-log (system_observability_runner.py, lines 125-131): the
\* file LOG_FILE names is removed when it exists.
clear_log ==
    /\ files' = [files EXCEPT ![LOG_FILE] = Absent]
    /\ last_call' = [NoCall EXCEPT !.op = "clear_log"]
    /\ validation' = [called |-> FALSE]
    /\ UNCHANGED <<current_log_file, dirs, calls>>

----------------------------------------------------------------------------
(* EventLogStore: log_record and log_records step by step, for callers that
   run at the same time *)

Writers == {"w1", "w2"}

\* The text of the numbers of the records
NumberText == <<"1", "2", "3", "4", "5", "6">>

\* The i-th record a writer hands to the store: the records name their writer
\* and their number.
WriterRecord(w, i) ==
    <<Field("record_type", PStr("step")), Field("writer", PStr(w)),
      Field("seq", PStr(NumberText[i]))>>

\* A dict that holds itself
PCycle == [t |-> "cycle", v |-> <<>>]

\* A record that json.dumps cannot write: it raises ValueError (circular
\* reference), default=str or not.
CyclicRecord(w, i) == Append(WriterRecord(w, i), Field("self", PCycle))

\* json.dumps(record, ...) returns
serializable(record) == \A i \in 1..Len(record) : record[i].v.t # "cycle"

\* What the operating system does with one write() on a file opened for
\* append: it appends all of it ("ok"), or it fails and appends nothing
\* ("fail"), or it appends the lines before line `at` and the beginning of
\* that line and then fails ("partial": the disk or a quota filled up).
Os(res, at) == [res |-> res, at |-> at]
OsOk == Os("ok", 0)
OsOutcomes(n) == {OsOk, Os("fail", 0)} \cup { Os("partial", j) : j \in 1..n }

\* The beginning of a line: its end and its line end are missing
head_of(line) == [kind |-> "head", doc |-> line.doc]

\* Two pieces of text that met in one physical line
MixedLine == [kind |-> "garbage", doc |-> <<>>, text |-> <<"{", "{", "\n">>]

\* The last physical line of a file has no line end yet
Unterminated(lines) == lines # <<>> /\ lines[Len(lines)].kind = "head"

RECURSIVE os_append(_, _)
\* The physical lines of a file after `pieces` were appended at its end: a
\* piece that follows a line without line end continues that line.
os_append(lines, pieces) ==
    IF pieces = <<>> THEN lines
    ELSE LET piece == Head(pieces)
             next  == IF ~Unterminated(lines) THEN Append(lines, piece)
                      ELSE [lines EXCEPT ![Len(lines)] =
                               IF piece.kind = "head" THEN head_of(MixedLine) ELSE MixedLine]
         IN os_append(next, Tail(pieces))

\* One write() of `pieces` at the end of the file, the operating system
\* answering `out`
os_write(file, pieces, out) ==
    CASE out.res = "ok"   -> [file EXCEPT !.lines = os_append(@, pieces)]
      [] out.res = "fail" -> file
      [] OTHER            ->
            [file EXCEPT !.lines =
                os_append(@, SubSeq(pieces, 1, out.at - 1) \o <<head_of(pieces[out.at])>>)]

\* A flush that hands the buffer over up to a byte count, inside its last line.
flushed_cut(pending) ==
    IF pending = <<>> THEN <<>>
    ELSE SubSeq(pending, 1, Len(pending) - 1) \o <<head_of(pending[Len(pending)])>>

\* What a flush of the file object hands to the operating system in one
\* write(): all that f.write was given since the last flush, so whole lines.
flushed(pending) == pending

\* A writer that is in no call and has made none
IdleWriter ==
    [pc |-> "idle", op |-> "none", records |-> <<>>, k |-> 0, ensured |-> NoPath,
     log_file |-> NoPath, before |-> <<>>, pending |-> <<>>, raised |-> "none",
     failed_at |-> 0, given |-> 0, returned |-> <<>>]

WriterInit == writers = [w \in Writers |-> IdleWriter]

\* The records handed to the store so far
Given == writers["w1"].given + writers["w2"].given

\* The writer calls log_record(record) (n = 1) or log_records(records) with n
\* records, those at the positions `cyclic` not serializable.
WriterCall(w, op, n, cyclic) ==
    LET me == writers[w]
    IN /\ me.pc = "idle"
       /\ Given + n <= MaxAppends
       /\ op = "log_record" => n = 1
       /\ writers' = [writers EXCEPT ![w] =
              [IdleWriter EXCEPT
                  !.pc = "ensure", !.op = op,
                  !.records = [i \in 1..n |->
                                  IF i \in cyclic THEN CyclicRecord(w, me.given + i)
                                  ELSE WriterRecord(w, me.given + i)],
                  !.given = me.given + n, !.returned = me.returned]]
       /\ UNCHANGED <<storeVars, ctxVars, mwVars, loggerVars, utilVars>>

\* ensure_log_directory() (lines 111-112): the destination is read and the
\* directories of that destination are made.
WriterEnsure(w) ==
    /\ writers[w].pc = "ensure"
    /\ dirs' = mkdir_parents(dirs, get_log_file)
    /\ writers' = [writers EXCEPT ![w].pc = "get", ![w].ensured = get_log_file]
    /\ UNCHANGED <<current_log_file, files, calls, validation, last_call>>
    /\ UNCHANGED <<ctxVars, mwVars, loggerVars, utilVars>>

\* log_file = _get_log_file() (lines 126, 142): the destination is read again.
WriterGetFile(w) ==
    /\ writers[w].pc = "get"
    /\ writers' = [writers EXCEPT ![w].pc = "open", ![w].log_file = get_log_file]
    /\ UNCHANGED <<storeVars, ctxVars, mwVars, loggerVars, utilVars>>

\* open(log_file, "a") (lines 127, 143): the file is made when it is not there;
\* where its directory is not there, open raises FileNotFoundError.
WriterOpen(w) ==
    LET me   == writers[w]
        path == me.log_file
    IN /\ me.pc = "open"
       /\ IF ParentChain(path) \subseteq dirs
          THEN /\ files' = [files EXCEPT ![path].exists = TRUE]
               /\ writers' = [writers EXCEPT ![w].pc = "write", ![w].k = 1,
                                             ![w].before = files[path].lines]
          ELSE /\ files' = files
               /\ writers' = [writers EXCEPT ![w].pc = "idle",
                                             ![w].raised = "FileNotFoundError"]
       /\ UNCHANGED <<current_log_file, dirs, calls, validation, last_call>>
       /\ UNCHANGED <<ctxVars, mwVars, loggerVars, utilVars>>

\* One f.write(json.dumps(record, ...) + "\n") (lines 128, 145). json.dumps may
\* raise. The line goes to the buffer of the file object; when the buffer is
\* full (flush_first) what it holds is written out first, and a write() that
\* fails raises OSError out of f.write.
WriterWrite(w, flush_first, out) ==
    LET me     == writers[w]
        path   == me.log_file
        record == me.records[me.k]
    IN /\ me.pc = "write"
       /\ me.k <= Len(me.records)
       /\ flush_first => (me.pending # <<>> /\ serializable(record))
       /\ ~flush_first => out = OsOk
       /\ out.at <= Len(me.pending)
       /\ IF ~serializable(record)
          THEN /\ writers' = [writers EXCEPT ![w].pc = "close", ![w].raised = "ValueError",
                                             ![w].failed_at = me.k]
               /\ files' = files
          ELSE IF ~flush_first
          THEN /\ writers' = [writers EXCEPT ![w].pending = Append(@, json_dumps(record)),
                                             ![w].k = @ + 1]
               /\ files' = files
          ELSE /\ files' = [files EXCEPT ![path] = os_write(@, flushed(me.pending), out)]
               /\ writers' = IF out.res = "ok"
                             THEN [writers EXCEPT ![w].pending = <<json_dumps(record)>>,
                                                  ![w].k = @ + 1]
                             ELSE [writers EXCEPT ![w].pc = "idle", ![w].raised = "OSError",
                                                  ![w].failed_at = me.k,
                                                  ![w].pending = <<>>]
       /\ UNCHANGED <<current_log_file, dirs, calls, validation, last_call>>
       /\ UNCHANGED <<ctxVars, mwVars, loggerVars, utilVars>>

\* The end of the with block (lines 127-128, 143-145), after the loop or after
\* json.dumps raised: close() writes out what the buffer holds; a write() that
\* fails there raises OSError, in place of the exception on its way.
WriterClose(w, out) ==
    LET me     == writers[w]
        path   == me.log_file
        raised == IF out.res # "ok" THEN "OSError" ELSE me.raised
    IN /\ \/ me.pc = "close"
          \/ me.pc = "write" /\ me.k > Len(me.records)
       /\ me.pending = <<>> => out = OsOk
       /\ out.at <= Len(me.pending)
       /\ files' = IF me.pending = <<>> THEN files
                   ELSE [files EXCEPT ![path] = os_write(@, flushed(me.pending), out)]
       /\ writers' = [writers EXCEPT
              ![w].pc = "idle", ![w].pending = <<>>, ![w].raised = raised,
              ![w].returned = IF raised = "none" THEN @ \o me.records ELSE @]
       /\ UNCHANGED <<current_log_file, dirs, calls, validation, last_call>>
       /\ UNCHANGED <<ctxVars, mwVars, loggerVars, utilVars>>

\* The steps of the writers ws, with records that cannot be serialized where
\* `cyclics` holds TRUE, the operating system answering the writes with the
\* results `outs`.
WriterSteps(ws, cyclics, outs) ==
    \E w \in ws :
        \/ \E op \in {"log_record", "log_records"}, n \in 0..MaxBatch :
               \E cyclic \in SUBSET (1..n) :
                   /\ cyclic # {} => TRUE \in cyclics
                   /\ WriterCall(w, op, n, cyclic)
        \/ WriterEnsure(w)
        \/ WriterGetFile(w)
        \/ WriterOpen(w)
        \/ \E flush_first \in BOOLEAN, out \in OsOutcomes(MaxBatch) :
               out.res \in outs /\ WriterWrite(w, flush_first, out)
        \/ \E out \in OsOutcomes(MaxBatch) : out.res \in outs /\ WriterClose(w, out)

\* Another thread sets or resets the destination while a writer is in a call.
DestinationMoves ==
    \/ \E path \in LogFiles :
           set_log_file(path) /\ UNCHANGED <<ctxVars, mwVars, loggerVars, utilVars, writerVars>>
    \/ reset_log_file /\ UNCHANGED <<ctxVars, mwVars, loggerVars, utilVars, writerVars>>

StoreInit ==
    /\ current_log_file = NoPath
    /\ files = [p \in LogFiles |-> Absent]
    /\ dirs = {}
    /\ calls = [p \in LogFiles |-> <<>>]
    /\ validation = [called |-> FALSE]
    /\ last_call = NoCall

\* No id generated and no timestamp taken yet, in a process whose zone is UTC
NoStamp == [called |-> FALSE]
UtilInit ==
    /\ new_ids = <<>>
    /\ utc_offset = 0
    /\ stamp = NoStamp

\* The logger the handlers use: get_logger("handler") with the default level
LoggerInit ==
    /\ logger_level = "INFO"
    /\ emits = <<>>
    /\ clock = 0

Init == CtxInit /\ MwInit /\ StoreInit /\ LoggerInit /\ UtilInit /\ WriterInit

\* The steps of one writer using the store: it appends records from `inputs`, and
\* the operating system fails its I/O in the ways `fails` names.
StoreSteps(inputs, fails) ==
    \/ \E path \in LogFiles : set_log_file(path) /\ UNCHANGED <<ctxVars, mwVars, loggerVars, utilVars, writerVars>>
    \/ reset_log_file /\ UNCHANGED <<ctxVars, mwVars, loggerVars, utilVars, writerVars>>
    \/ ensure_log_directory /\ UNCHANGED <<ctxVars, mwVars, loggerVars, utilVars, writerVars>>
    \/ \E record \in inputs, io \in IoInputs(1) :
           /\ io.fail \in fails
           /\ log_record(record, io) /\ UNCHANGED <<ctxVars, mwVars, loggerVars, utilVars, writerVars>>
    \/ \E records \in SeqsUpTo(inputs, MaxBatch), io \in IoInputs(MaxBatch) :
           /\ io.fail \in fails
           /\ io.at <= Len(records)
           /\ log_records(records, io) /\ UNCHANGED <<ctxVars, mwVars, loggerVars, utilVars, writerVars>>
    \/ validate_log /\ UNCHANGED <<ctxVars, mwVars, loggerVars, utilVars, writerVars>>

\* One writer using the store, over every record, on a file system that works.
StoreNext == StoreSteps(RecordInputs, {"none"})

SpecStore == Init /\ [][StoreNext]_vars

\* The records of the file-system runs
CoreRecords ==
    { <<Field("record_type", PStr("step"))>>,
      <<Field("event", PStr("started"))>> }

\* One writer using the store on a file system whose mkdir, open and write can fail.
StoreIoNext == StoreSteps(CoreRecords, {"none", "mkdir", "open", "write"})

SpecStoreIo == Init /\ [][StoreIoNext]_vars

\* The store and the legacy command line in one process.
RunnerNext ==
    \/ StoreSteps(CoreRecords, {"none"})
    \/ clear_log /\ UNCHANGED <<ctxVars, mwVars, loggerVars, utilVars, writerVars>>

SpecRunner == Init /\ [][RunnerNext]_vars

\* Two writers appending to one destination at the same time, on a file system
\* that works.
WritersNext == WriterSteps(Writers, {FALSE}, {"ok"})

SpecWriters == Init /\ [][WritersNext]_vars

\* One writer whose records may fail to serialize and whose writes may fail.
WriterFailNext == WriterSteps({"w1"}, BOOLEAN, {"ok", "fail", "partial"})

SpecWriterFail == Init /\ [][WriterFailNext]_vars

\* One writer, and another thread that moves the destination.
WriterMoveNext == WriterSteps({"w1"}, {FALSE}, {"ok"}) \/ DestinationMoves

SpecWriterMove == Init /\ [][WriterMoveNext]_vars

\* The lines of the log files the validation runs start from
LineInputs == {GarbageLine, LongLine, BlankLine, EmptyLine, ScalarLine} \cup { json_dumps(record) : record \in RecordInputs }

\* The default log file does not exist yet, or it exists and holds any lines:
\* what earlier runs, other writers and interrupted writes left there.
ValidateInit ==
    /\ CtxInit /\ MwInit /\ LoggerInit /\ UtilInit /\ WriterInit
    /\ current_log_file = NoPath
    /\ \/ /\ files = [p \in LogFiles |-> Absent]
          /\ dirs = {}
       \/ /\ \E lines \in SeqsUpTo(LineInputs, MaxLines) :
                 files = [p \in LogFiles |->
                             IF p = DefaultLogFile THEN [exists |-> TRUE, lines |-> lines]
                             ELSE Absent]
          /\ dirs = ParentChain(DefaultLogFile)
    /\ calls = [p \in LogFiles |-> <<>>]
    /\ validation = [called |-> FALSE]
    /\ last_call = NoCall

\* Records are appended to what the file holds, and the file is validated.
ValidateNext ==
    \/ \E record \in CoreRecords :
           log_record(record, IoOk) /\ UNCHANGED <<ctxVars, mwVars, loggerVars, utilVars, writerVars>>
    \/ validate_log /\ UNCHANGED <<ctxVars, mwVars, loggerVars, utilVars, writerVars>>

SpecValidate == ValidateInit /\ [][ValidateNext]_vars

----------------------------------------------------------------------------
(* Specifications of the middleware *)

\* The steps of the contexts ctxs, for calls with scopes from `scopes`, handlers
\* that take at most `limit` steps and send messages from `messages`, and sink
\* writes that succeed as `oks` says.
MwNext(ctxs, scopes, messages, oks, limit) ==
    \E c \in ctxs :
        \/ \E scope \in scopes : Call(c, scope)
        \/ \E message \in messages : HandlerSend(c, message, limit)
        \/ HandlerEmit(c, limit)
        \/ AppReturn(c)
        \/ \E e \in HandlerFailures : AppRaise(c, e)
        \/ \E ok \in oks : LogRequest(c, ok)
        \/ \E ok \in oks : LogError(c, ok)
        \/ Finally(c)
        \/ Resume(c)

\* One execution context serving requests one after the other, over every input;
\* between requests its own code may bind an id.
Next == MwNext({"ctx1"}, ScopeInputs, Messages, BOOLEAN, MaxHandlerSteps) \/ AppSet("ctx1")

Spec == Init /\ [][Next]_vars

\* Two execution contexts serving requests concurrently, with a sink that works.
ConcNext == MwNext(Contexts, CoreScopes, CoreMessages, {TRUE}, MaxHandlerSteps)

SpecConc == Init /\ [][ConcNext]_vars

\* One execution context whose handler may be a middleware instance itself and
\* whose own code may bind an id between requests, with a sink that works.
NestNext ==
    \/ MwNext({"ctx1"}, CoreScopes, CoreMessages, {TRUE}, MaxHandlerSteps)
    \/ NestedCall("ctx1", MaxHandlerSteps)
    \/ AppSet("ctx1")

SpecNest == Init /\ [][NestNext]_vars

\* One execution context whose handlers send several messages, with a sink
\* that works.
SendNext == MwNext({"ctx1"}, CoreScopes, Messages, {TRUE}, MaxSends)

SpecSend == Init /\ [][SendNext]_vars

----------------------------------------------------------------------------
(* The correlation context on its own: two contexts calling set, get and   *)
(* clear of either module in any order.                                    *)

CtxNext ==
    \E m \in Modules, c \in Contexts :
        \/ \E id \in SetIds : CtxSet(m, c, id) /\ UNCHANGED <<mwVars, storeVars, loggerVars, utilVars, writerVars>>
        \/ CtxClear(m, c) /\ UNCHANGED <<mwVars, storeVars, loggerVars, utilVars, writerVars>>
        \/ CtxGet(m, c) /\ UNCHANGED <<mwVars, storeVars, loggerVars, utilVars, writerVars>>

SpecCtx == Init /\ [][CtxNext]_vars

----------------------------------------------------------------------------
(* StructuredLogger on its own: one execution context that binds and clears *)
(* the id of structured_logging and calls debug / info / warning / error /  *)
(* critical of a logger writing to a stream.                                *)

LevelInputs == {"DEBUG", "INFO", "WARNING", "ERROR", "CRITICAL"}

\* The keyword arguments of the calls
KwargsInputs ==
    { NoKwargs,
      [user_id        |-> Lit("u-1")],
      [timestamp      |-> Lit("1970-01-01T00:00:00")],
      [correlation_id |-> Lit("mine")],
      [logger         |-> Lit("other")],
      [level          |-> Lit("trace")] }

\* logger.<level>(event, **kwargs) hands on to _log(level, event, **kwargs): a
\* keyword named level or event collides with a parameter and the call raises
\* TypeError (multiple values for argument) before _log runs.
BindsTwice(kwargs) == DOMAIN kwargs \cap {"level", "event"} # {}

\* logger.debug / info / warning / error / critical ("event", **kwargs) in context c
Emit(c, level, kwargs) ==
    /\ Len(emits) < MaxEmits
    /\ sl_stream' = sl_stream \o
           (IF BindsTwice(kwargs) THEN <<>>
            ELSE sl_log("app", logger_level, c, level, "event", kwargs))
    /\ emits' = Append(emits,
           [level |-> level, kwargs |-> kwargs, time |-> clock,
            bound |-> last_set["structured_logging"][c],
            raised |-> IF BindsTwice(kwargs) THEN "TypeError" ELSE "none"])
    /\ clock' = clock + 1
    /\ UNCHANGED <<ctxVars, pc, req, log_stream, n_calls, n_uuid, bound_ids, logger_level>>
    /\ UNCHANGED <<storeVars, utilVars, writerVars>>

\* The steps of context ctx1 using a logger: calls at the levels `levels` with
\* keyword arguments from `kwargss`, the ids `ids` bound and cleared in between.
LoggerSteps(levels, kwargss, ids) ==
    \/ \E level \in levels, kwargs \in kwargss : Emit("ctx1", level, kwargs)
    \/ \E id \in ids :
           CtxSet("structured_logging", "ctx1", id) /\ UNCHANGED <<mwVars, storeVars, loggerVars, utilVars, writerVars>>
    \/ CtxClear("structured_logging", "ctx1") /\ UNCHANGED <<mwVars, storeVars, loggerVars, utilVars, writerVars>>

\* StructuredLogger("app", stream, level) for every level name
LevelsInit ==
    /\ CtxInit /\ MwInit /\ StoreInit /\ UtilInit /\ WriterInit
    /\ logger_level \in LevelInputs
    /\ emits = <<>>
    /\ clock = 0

\* Loggers of every threshold called at every level.
LevelsNext == LoggerSteps(LevelInputs, {NoKwargs, [user_id |-> Lit("u-1")]}, {IdA})

SpecLevels == LevelsInit /\ [][LevelsNext]_vars

\* Level names as a caller may spell them: the five keys of LOG_LEVELS, other
\* spellings of them, names that are no level, and the empty name
LevelNames == LevelInputs \cup {"debug", "Warning", "TRACE", "trace", ""}

\* StructuredLogger("app", stream, level) for every name in LevelNames
LevelNamesInit ==
    /\ CtxInit /\ MwInit /\ StoreInit /\ UtilInit /\ WriterInit
    /\ logger_level \in LevelNames
    /\ emits = <<>>
    /\ clock = 0

\* Loggers of every threshold name called through _log(level, "event") with
\* every level name.
LevelNamesNext == LoggerSteps(LevelNames, {NoKwargs}, {IdA})

SpecLevelNames == LevelNamesInit /\ [][LevelNamesNext]_vars

\* A logger of threshold INFO called with every kind of keyword argument while
\* the bound id changes.
FieldsNext == LoggerSteps({"DEBUG", "ERROR"}, KwargsInputs, SetIds)

SpecFields == Init /\ [][FieldsNext]_vars

----------------------------------------------------------------------------
(* Identifier and timestamp utilities of jsonl_logger. Strings are sequences *)
(* of characters.                                                            *)

HexDigits == {"0", "1", "2", "3", "4", "5", "6", "7", "8", "9", "a", "b", "c", "d", "e", "f"}

\* uuid.uuid4().hex: 32 lowercase hexadecimal digits, the 13th being the version
\* digit 4. Two of the halves below give four values that differ pairwise as
\* UUIDs, among them values that agree in their first 16 digits.
HexHigh1 == <<"3", "f", "a", "8", "5", "f", "6", "4", "5", "7", "1", "7", "4", "5", "6", "2">>
HexHigh2 == <<"0", "c", "9", "e", "2", "d", "7", "7", "a", "b", "0", "1", "4", "e", "e", "9">>
HexLow1  == <<"b", "3", "f", "c", "2", "c", "9", "6", "3", "f", "6", "6", "a", "f", "a", "6">>
HexLow2  == <<"8", "1", "d", "0", "5", "5", "e", "3", "7", "a", "4", "4", "0", "0", "1", "b">>
UuidHexInputs ==
    { HexHigh1 \o HexLow1, HexHigh1 \o HexLow2, HexHigh2 \o HexLow1, HexHigh2 \o HexLow2 }

PrefixInputs == { <<"t", "r", "c">>, <<"s", "r">> }

\* new_id(prefix), uuid.uuid4().hex being hex: f"{prefix}_{hex[:16]}"
new_id(prefix, hex) == prefix \o <<"_">> \o SubSeq(hex, 1, 16)

\* A call of new_id(prefix); uuid4 draws a UUID it has not drawn before.
NewId(prefix) ==
    /\ Len(new_ids) < MaxIds
    /\ \E hex \in UuidHexInputs \ { new_ids[i].uuid : i \in 1..Len(new_ids) } :
           new_ids' = Append(new_ids, [prefix |-> prefix, uuid |-> hex,
                                       id |-> new_id(prefix, hex)])
    /\ UNCHANGED <<utc_offset, stamp>>
    /\ UNCHANGED <<ctxVars, mwVars, storeVars, loggerVars, writerVars>>

\* An instant, as the UTC calendar shows it
Instant(h, mi, sec, us) ==
    [year |-> 2026, month |-> 11, day |-> 2, hour |-> h, minute |-> mi,
     second |-> sec, microsecond |-> us]

InstantInputs ==
    { Instant(9, 5, 7, 123456), Instant(23, 30, 0, 999), Instant(0, 15, 59, 999500) }

\* Hours east of UTC of the zones the process may run in
UtcOffsetInputs == {-5, 0, 2}

\* datetime.now(tz=None): the naive local time, offset hours east of UTC
datetime_now_local(instant, offset) ==
    LET h == instant.hour + offset
    IN CASE h >= 24 -> [instant EXCEPT !.day = @ + 1, !.hour = h - 24]
         [] h < 0   -> [instant EXCEPT !.day = @ - 1, !.hour = h + 24]
         [] OTHER   -> [instant EXCEPT !.hour = h]

DecimalDigits == <<"0", "1", "2", "3", "4", "5", "6", "7", "8", "9">>

RECURSIVE ZeroPad(_, _)
\* n written in decimal with w digits, zero-padded
ZeroPad(n, w) ==
    IF w = 0 THEN <<>> ELSE ZeroPad(n \div 10, w - 1) \o <<DecimalDigits[(n % 10) + 1]>>

\* t.strftime("%Y-%m-%dT%H:%M:%S.%f")
strftime(t) ==
    ZeroPad(t.year, 4) \o <<"-">> \o ZeroPad(t.month, 2) \o <<"-">> \o ZeroPad(t.day, 2)
    \o <<"T">> \o ZeroPad(t.hour, 2) \o <<":">> \o ZeroPad(t.minute, 2) \o <<":">>
    \o ZeroPad(t.second, 2) \o <<".">> \o ZeroPad(t.microsecond, 6)

\* now_iso() at `instant` in a process offset hours east of UTC:
\* datetime.now(tz=None).strftime(...)[:-3] + "Z"
now_iso(instant, offset) ==
    LET text == strftime(datetime_now_local(instant, offset))
    IN SubSeq(text, 1, Len(text) - 3) \o <<"Z">>

\* A call of now_iso() at some instant
NowIso(instant) ==
    /\ stamp' = [called |-> TRUE, instant |-> instant, text |-> now_iso(instant, utc_offset)]
    /\ UNCHANGED <<new_ids, utc_offset>>
    /\ UNCHANGED <<ctxVars, mwVars, storeVars, loggerVars, writerVars>>

\* A process in any of the zones
UtilSpecInit ==
    /\ CtxInit /\ MwInit /\ StoreInit /\ LoggerInit /\ WriterInit
    /\ new_ids = <<>>
    /\ utc_offset \in UtcOffsetInputs
    /\ stamp = NoStamp

UtilNext ==
    \/ \E prefix \in PrefixInputs : NewId(prefix)
    \/ \E instant \in InstantInputs : NowIso(instant)

SpecUtil == UtilSpecInit /\ [][UtilNext]_vars

----------------------------------------------------------------------------
(* Properties *)

\* An observable call: an http scope whose path is not on the exclusion list.
IsObservable(scope) == scope.type = "http" /\ scope.path \notin exclude_paths

\* The ids bound by the requests that came before the latest one
EarlierRequestIds(k) == { bound_ids[i].id : i \in 1..(k - 1) } \ {None}

\* C1: under any interleaving of set / get / clear from two contexts, a get
\* returns what the same context last set (None after a clear or when it never
\* set), and the value a context would read is never changed by the other
\* context's set or clear.
C1_ContextIsolation ==
    \A m \in Modules, c \in Contexts :
        /\ got[m][c].read => got[m][c].v = last_set[m][c]
        /\ get_correlation_id(CvOf(m), c) = last_set[m][c]

\* Context 1 set A, context 2 set B, and context 1 then read A.
C1_Witness ==
    /\ last_set["request_logging"]["ctx1"] = IdA
    /\ last_set["request_logging"]["ctx2"] = IdB
    /\ got["request_logging"]["ctx1"] = [read |-> TRUE, v |-> IdA]

\* C2: when an observable call has handed control back to its caller (the
\* handler returned, raised or was cancelled), the context holds no id; and no
\* call ever finds the id of an earlier request in the context it starts in.
C2_ClearedOnEveryExit ==
    \A c \in Contexts :
        /\ (pc[c] = "done" /\ IsObservable(req[c].scope))
              => get_correlation_id(rl_correlation_id, c) = None
        /\ pc[c] # "idle" => req[c].ctx_before \notin EarlierRequestIds(Len(bound_ids))

\* An observable call whose handler was cancelled has returned to its caller.
C2_Witness ==
    \E c \in Contexts :
        /\ pc[c] = "done"
        /\ IsObservable(req[c].scope)
        /\ req[c].handler = "CancelledError"
        /\ req[c].correlation_id # None

\* C3: when the handler of an observable call raises, the failure that leaves
\* __call__ is the failure the handler raised.
C3_OriginalFailurePropagates ==
    \A c \in Contexts :
        (pc[c] = "done" /\ IsObservable(req[c].scope) /\ req[c].handler \in HandlerFailures)
            => req[c].exc = req[c].handler

IsSuccessEntry(e) == {"status", "duration_ms", "correlation_id"} \subseteq DOMAIN e
IsErrorEntry(e)   == {"error", "duration_ms", "correlation_id"} \subseteq DOMAIN e

\* C4: every observable call writes exactly one entry: success-shaped when the
\* handler returned, error-shaped when it raised.
C4_ExactlyOneEntry ==
    \A c \in Contexts :
        (pc[c] = "done" /\ IsObservable(req[c].scope))
            => /\ Len(req[c].written) = 1
               /\ req[c].handler = "returned" => IsSuccessEntry(req[c].written[1])
               /\ req[c].handler \in HandlerFailures => IsErrorEntry(req[c].written[1])

\* C5: a call that is not observable (scope type not http, or path excluded)
\* reaches the handler with the caller's own send, draws no id, writes no
\* entry, leaves the context as it found it, and hands the handler's failure
\* to the caller as it is.
C5_PassThrough ==
    \A c \in Contexts :
        (pc[c] # "idle" /\ ~IsObservable(req[c].scope))
            => /\ pc[c] \in {"app", "done"}
               /\ req[c].app_send = "send"
               /\ ~req[c].generated
               /\ req[c].correlation_id = None
               /\ req[c].written = <<>>
               /\ get_correlation_id(rl_correlation_id, c) = req[c].ctx_before
               /\ pc[c] = "done" => req[c].exc = (IF req[c].handler = "returned"
                                                   THEN "none" ELSE req[c].handler)

\* An http call for an excluded path, made while the context held an id, has
\* ended with the handler's failure.
C5_Witness ==
    \E c \in Contexts :
        /\ pc[c] = "done"
        /\ req[c].scope.type = "http"
        /\ req[c].scope.path \in exclude_paths
        /\ req[c].ctx_before = IdA
        /\ req[c].handler = "HandlerError"

\* C6: an entry the handler emits through StructuredLogger during an observable
\* call carries the id the middleware bound for that call.
C6_HandlerEntriesCarryBoundId ==
    \A c \in Contexts :
        (pc[c] # "idle" /\ IsObservable(req[c].scope))
            => \A i \in 1..Len(req[c].emitted) :
                   req[c].emitted[i]["correlation_id"] = req[c].correlation_id

\* The values of the inbound headers named X-Correlation-Id, ignoring case
MarkerValues(headers) ==
    { headers[i].value : i \in { j \in 1..Len(headers) :
                                    Lower(headers[j].name) = "x-correlation-id" } }

\* The id of the call is the one in the context while the handler runs, and the
\* one in every entry the call wrote.
IdBoundAndWritten(c) ==
    /\ pc[c] = "app" => get_correlation_id(rl_correlation_id, c) = req[c].correlation_id
    /\ \A i \in 1..Len(req[c].written) :
           req[c].written[i].correlation_id = req[c].correlation_id

C8_IdsUniquePerRequest ==
    \A i, j \in 1..Len(bound_ids) :
        (i < j /\ bound_ids[j].id # None) => bound_ids[i].id # bound_ids[j].id

\* C8, amended: an id the middleware generates differs from the id of every
\* earlier request; ids supplied by callers are taken as they come and may
\* repeat.
C8_GeneratedIdsUnique ==
    \A i, j \in 1..Len(bound_ids) :
        (i < j /\ bound_ids[j].generated) => bound_ids[i].id # bound_ids[j].id

\* Two requests with generated ids are in flight at the same time.
C8_Witness ==
    /\ pc["ctx1"] = "app" /\ req["ctx1"].generated
    /\ pc["ctx2"] = "app" /\ req["ctx2"].generated
    /\ Len(bound_ids) = 2

RECURSIVE SumCounts(_)
\* The sum of the counts of a record_types mapping
SumCounts(types) == IF types = <<>> THEN 0 ELSE Head(types).v + SumCounts(Tail(types))

\* The record_type a record is counted under once read back
RecordTypeOf(record) == DictGet(json_loads(json_dumps(record)), "record_type", PStr("unknown"))

\* C9: after N records were appended to a destination that started absent,
\* validate_log() returns total_records = N, error_count = 0 and per-type counts
\* (by record_type, "unknown" when absent) that sum to N, for records that are
\* arbitrary string-keyed mappings.
C9_ValidateCountsAppended ==
    validation.called =>
        LET appended == calls[get_log_file]
        IN /\ validation.raised = "none"
           /\ validation.total_records = Len(appended)
           /\ validation.error_count = 0
           /\ SumCounts(validation.record_types) = Len(appended)
           /\ \A i \in 1..Len(validation.record_types) :
                  validation.record_types[i].v =
                      Cardinality({ n \in 1..Len(appended) :
                                      RecordTypeOf(appended[n]) = validation.record_types[i].k })

\* C10: the lines of each destination are the records appended to it, one line
\* per record, in call order; the records of one log_records call are
\* contiguous and in the order of its list.
C10_AppendOrderIsCallOrder ==
    \A p \in LogFiles :
        /\ Len(files[p].lines) = Len(calls[p])
        /\ \A i \in 1..Len(calls[p]) : files[p].lines[i] = json_dumps(calls[p][i])
        /\ files[p].exists \/ calls[p] = <<>>

\* Three different records were appended to one destination.
C10_Witness ==
    /\ calls[CustomLogFile] = << <<Field("record_type", PStr("step"))>>,
                                 <<Field("event", PStr("started"))>>,
                                 <<Field("record_type", PNone)>> >>
    /\ Len(files[CustomLogFile].lines) = 3
    /\ get_log_file = CustomLogFile

\* a is an initial segment of b
IsPrefix(a, b) == Len(a) <= Len(b) /\ SubSeq(b, 1, Len(a)) = a

\* C11: every step of the store (set_log_file, reset_log_file,
\* ensure_log_directory, log_record, log_records, validate_log, failing or not)
\* leaves the old lines of every log file in place, in their order, as an
\* initial segment of its new lines, and removes no file.
C11_AppendOnly ==
    [][\A p \in LogFiles :
          /\ IsPrefix(files[p].lines, files'[p].lines)
          /\ files[p].exists => files'[p].exists]_vars

\* The last call appended to the default file, which held lines before it.
C11_Witness ==
    /\ last_call.written >= 1
    /\ calls[CustomLogFile] = <<>>
    /\ Len(files[DefaultLogFile].lines) > last_call.written

RECURSIVE log_record_each(_, _, _, _)
\* for record in records: log_record(record), on a file system that works
log_record_each(fs, ds, path, records) ==
    IF records = <<>> THEN [files |-> fs, dirs |-> ds]
    ELSE LET after == write_record(fs, ds, path, Head(records), IoOk)
         IN log_record_each(after.files, after.dirs, path, Tail(records))

\* log_records(records) and log_record on each element leave the same files and
\* directories when started in the current state
SameAsEach(records) ==
    LET batch == write_records(files, dirs, get_log_file, records, IoOk)
        each  == log_record_each(files, dirs, get_log_file, records)
    IN batch.files = each.files /\ batch.dirs = each.dirs

\* C12 as stated: from every state, for every list of records (the empty list
\* and lists with repeated elements included), log_records(list) leaves the
\* file system as calling log_record on each element in order does.
C12_BatchEqualsEach ==
    \A records \in SeqsUpTo(RecordInputs, MaxBatch) : SameAsEach(records)

\* C12, amended: from every state, for every non-empty list of records,
\* log_records(list) leaves the file system as calling log_record on each
\* element in order does; log_records([]) adds no line either, but it creates
\* the directories and the (empty) destination file when they are missing,
\* which calling log_record zero times does not.
C12_NonEmptyBatchEqualsEach ==
    /\ \A records \in SeqsUpTo(RecordInputs, MaxBatch) \ {<<>>} : SameAsEach(records)
    /\ LET batch == write_records(files, dirs, get_log_file, <<>>, IoOk)
       IN /\ batch.files[get_log_file].lines = files[get_log_file].lines
          /\ batch.files[get_log_file].exists
          /\ batch.dirs = dirs \cup ParentChain(get_log_file)
          /\ \A p \in LogFiles \ {get_log_file} : batch.files[p] = files[p]

\* log_records just appended a list of two equal records to a destination that
\* held a record already.
C12_Witness ==
    LET q == calls[get_log_file]
    IN /\ last_call.op = "log_records" /\ last_call.n = 2
       /\ Len(q) = 3 /\ q[2] = q[3] /\ q[1] # q[2]

\* The positions of the lines of the kinds `kinds`, in file order
RECURSIVE LinesOfKind(_, _, _)
LinesOfKind(lines, kinds, n) ==
    IF n > Len(lines) THEN <<>>
    ELSE (IF lines[n].kind \in kinds THEN <<n>> ELSE <<>>) \o LinesOfKind(lines, kinds, n + 1)

\* C13: validate_log of a file holding M lines that are not JSON and N lines
\* that are JSON records, in any order (blank lines aside), returns
\* error_count = M and total_records = N, and reports each malformed line by its
\* line number: a malformed line never stops the lines after it from being read.
C13_PerLineRecovery ==
    validation.called =>
        LET lines     == files[get_log_file].lines
            malformed == LinesOfKind(lines, {"garbage"}, 1)
            records   == LinesOfKind(lines, {"object"}, 1)
        IN /\ validation.raised = "none"
           /\ validation.error_count = Len(malformed)
           /\ validation.total_records = Len(records)
           /\ Len(validation.errors) = Len(malformed)
           /\ \A i \in 1..Len(malformed) : validation.errors[i].line = malformed[i]

\* C14: validate_log() called while the current destination does not exist
\* raises nothing and returns total_records = 0, no record types,
\* error_count = 0 and no errors.
C14_MissingDestinationAllZero ==
    (validation.called /\ ~files[get_log_file].exists) =>
        /\ validation.raised = "none"
        /\ validation.total_records = 0
        /\ validation.record_types = <<>>
        /\ validation.error_count = 0
        /\ validation.errors = <<>>

\* validate_log ran on a custom destination that does not exist, while the
\* default file holds records.
C14_Witness ==
    /\ validation.called
    /\ current_log_file = CustomLogFile
    /\ ~files[CustomLogFile].exists
    /\ Len(files[DefaultLogFile].lines) >= 1

\* The five levels in ascending order
LevelOrder == <<"DEBUG", "INFO", "WARNING", "ERROR", "CRITICAL">>
Rank(level) == CHOOSE i \in 1..Len(LevelOrder) : LevelOrder[i] = level

\* The calls that got as far as the threshold check and whose level is at or
\* above the threshold of the logger
PassingCalls ==
    { i \in 1..Len(emits) : emits[i].raised = "none" /\ Rank(emits[i].level) >= Rank(logger_level) }

\* C15: for every threshold and every call level among DEBUG, INFO, WARNING,
\* ERROR and CRITICAL, a call below the threshold adds no line to the stream and
\* a call at or above it adds exactly one: after any sequence of calls the
\* stream holds as many lines as there were calls at or above the threshold,
\* and each line carries the level of its call.
C15_ThresholdHardCutoff ==
    /\ Len(sl_stream) = Cardinality(PassingCalls)
    /\ \A k \in 1..Len(sl_stream) :
          \E i \in PassingCalls :
              /\ Cardinality({j \in PassingCalls : j <= i}) = k
              /\ sl_stream[k].level = Lit(LevelLower(emits[i].level))

\* A logger of threshold WARNING was called at INFO and then at WARNING, and
\* its stream holds the one line of the second call.
C15_Witness ==
    /\ logger_level = "WARNING"
    /\ Len(emits) = 2
    /\ emits[1].level = "INFO" /\ emits[2].level = "WARNING"
    /\ Len(sl_stream) = 1

\* The destination in force: the one set last, the default one after a reset
\* or when none was ever set
CurrentDest == IF current_log_file = NoPath THEN DefaultLogFile ELSE current_log_file

\* C16: every step of the store leaves each file other than the destination in
\* force as it was; a step that changes the destination (set_log_file,
\* reset_log_file) changes no file, so nothing is merged or migrated and the
\* default file keeps its content for the time after a reset; and validate_log
\* reports on the file of the destination in force alone.
C16_DestinationsStayApart ==
    [][/\ \A p \in LogFiles \ {CurrentDest} : files'[p] = files[p]
       /\ current_log_file' # current_log_file => files' = files
       /\ (validation'.called /\ ~validation.called) =>
              validation' = validate_file(files[CurrentDest])]_vars

\* Records went to the default file and to the custom one, the destination was
\* reset, and validate_log then counted the default file's records only.
C16_Witness ==
    /\ current_log_file = NoPath
    /\ Len(calls[DefaultLogFile]) = 2 /\ Len(calls[CustomLogFile]) = 1
    /\ files[CustomLogFile].lines = dump_lines(calls[CustomLogFile])
    /\ validation.called /\ validation.raised = "none"
    /\ validation.total_records = 2

\* C17: when the handler of an observable call is cancelled, the call has
\* written exactly one error-shaped entry by the time the cancellation leaves
\* __call__, and it is the cancellation that leaves it.
C17_CancellationLoggedAsError ==
    \A c \in Contexts :
        (pc[c] = "done" /\ IsObservable(req[c].scope) /\ req[c].handler = "CancelledError")
            => /\ Len(req[c].written) = 1
               /\ IsErrorEntry(req[c].written[1])
               /\ req[c].exc = "CancelledError"

\* The call that wrote line k of the stream: the k-th call that passed the threshold
CallOfLine(k) ==
    CHOOSE i \in PassingCalls : Cardinality({j \in PassingCalls : j <= i}) = k

\* C18: a call may name level, logger, event or correlation_id among its extra
\* fields: the call is carried out and the line shows the caller's value for
\* that field; but the timestamp of every line is the time of its call,
\* whatever the extra fields are.
C18_ExtrasNeverOverrideTimestamp ==
    /\ \A i \in 1..Len(emits) : emits[i].raised = "none"
    /\ \A k \in 1..Len(sl_stream) :
          LET call == emits[CallOfLine(k)]
          IN /\ sl_stream[k].timestamp = utc_isoformat(call.time)
             /\ \A f \in DOMAIN call.kwargs \cap {"level", "logger", "event", "correlation_id"} :
                    sl_stream[k][f] = call.kwargs[f]

\* C19: the correlation_id of a line is the id bound in the context when the
\* call was made (not one bound earlier and replaced since), and a line written
\* while no id is bound has no correlation_id field at all.
C19_CorrelationReadAtEmit ==
    \A k \in 1..Len(sl_stream) :
        LET call == emits[CallOfLine(k)]
        IN "correlation_id" \notin DOMAIN call.kwargs =>
               IF call.bound = None
               THEN "correlation_id" \notin DOMAIN sl_stream[k]
               ELSE /\ "correlation_id" \in DOMAIN sl_stream[k]
                    /\ sl_stream[k].correlation_id = call.bound

StartsOf(sent) == { i \in 1..Len(sent) : sent[i].type = "http.response.start" }

\* The status code the handler produced: that of its last response-start
\* message, 0 when it sent none or the message carries none
StatusProduced(sent) ==
    IF \E i \in StartsOf(sent) : sent[i].status.some
    THEN sent[CHOOSE i \in StartsOf(sent) :
                 /\ sent[i].status.some
                 /\ \A j \in StartsOf(sent) : sent[j].status.some => j <= i].status
    ELSE PyInt(0)

\* C21: the entry of an observable call has a status field, and it holds the
\* status code of the handler's response-start message, or 0 when the handler
\* returned or failed without producing one.
C21_StatusOrZero ==
    \A c \in Contexts :
        (pc[c] = "done" /\ IsObservable(req[c].scope) /\ Len(req[c].written) = 1)
            => /\ "status" \in DOMAIN req[c].written[1]
               /\ req[c].written[1].status = StatusProduced(req[c].sent)

\* The record of line i of file p, read back: json.loads(line)
ReadBack(p, i) == json_loads(files[p].lines[i])

\* A record with each field value v replaced by back(v)
MapValues(record, back(_)) ==
    [i \in 1..Len(record) |-> Field(record[i].k, back(record[i].v))]

\* str(value) for a value without a JSON representation, the value itself otherwise
StringFallback(pv) == IF pv.t = "object" THEN PStr(pv.v[1]) ELSE pv

\* As StringFallback, and a tuple becomes the list of its elements
StringFallbackTupleAsList(pv) ==
    CASE pv.t = "object" -> PStr(pv.v[1])
      [] pv.t = "tuple"  -> PList(pv.v)
      [] OTHER           -> pv

\* C22 as stated: every record appended reads back from its line equal to the
\* original in every field, except that a value without a JSON representation
\* reads back as its string form.
C22_RoundTrip ==
    \A p \in LogFiles : \A i \in 1..Len(calls[p]) :
        /\ i <= Len(files[p].lines)
        /\ ReadBack(p, i) = MapValues(calls[p][i], StringFallback)

\* C22, amended: every record appended is written (no value makes the write
\* fail) and reads back from its line with the same keys in the same order,
\* each value equal to the original, except that a value without a JSON
\* representation reads back as its string form and a tuple reads back as the
\* list of its elements.
C22_RoundTripUpToJson ==
    \A p \in LogFiles : \A i \in 1..Len(calls[p]) :
        /\ i <= Len(files[p].lines)
        /\ ReadBack(p, i) = MapValues(calls[p][i], StringFallbackTupleAsList)

\* A record holding a value without a JSON representation and a tuple was
\* appended after another record.
C22_Witness ==
    \E p \in LogFiles :
        /\ Len(files[p].lines) >= 2
        /\ \E j \in 1..Len(calls[p][2]) : calls[p][2][j].v.t = "object"
        /\ \E j \in 1..Len(calls[p][2]) : calls[p][2][j].v.t = "tuple"

\* C23: from every state and for every destination, ensure_log_directory
\* leaves the whole parent chain of the destination in place and removes no
\* directory; a second call changes nothing, and neither does a call when the
\* chain exists already; and a step that changes the directories and no file
\* (the step of ensure_log_directory) adds exactly the missing directories of
\* the chain of the current destination.
C23_EnsureDirectoryIdempotent ==
    /\ [](\A path \in LogFiles :
            LET once == mkdir_parents(dirs, path)
            IN /\ ParentChain(path) \subseteq once
               /\ dirs \subseteq once
               /\ mkdir_parents(once, path) = once
               /\ ParentChain(path) \subseteq dirs => once = dirs)
    /\ [][(dirs' # dirs /\ files' = files) =>
             /\ dirs' = dirs \cup ParentChain(CurrentDest)
             /\ current_log_file' = current_log_file]_vars

\* ensure_log_directory created the chain of the custom destination, and no
\* file and no other directory exists.
C23_Witness ==
    /\ current_log_file = CustomLogFile
    /\ dirs = {"tmp", "tmp/run"}
    /\ last_call = NoCall
    /\ \A p \in LogFiles : ~files[p].exists

\* prefix + "_" + 16 lowercase hexadecimal characters
HasIdForm(id, prefix) ==
    /\ Len(id) = Len(prefix) + 17
    /\ SubSeq(id, 1, Len(prefix)) = prefix
    /\ id[Len(prefix) + 1] = "_"
    /\ \A k \in (Len(prefix) + 2)..Len(id) : id[k] \in HexDigits

\* C24: the results of the new_id calls made so far are pairwise
\* distinct, and each has the form prefix + "_" + 16 lowercase hex characters.
C24_NewIdsDistinct ==
    /\ \A i \in 1..Len(new_ids) : HasIdForm(new_ids[i].id, new_ids[i].prefix)
    /\ \A i, j \in 1..Len(new_ids) : i # j => new_ids[i].id # new_ids[j].id

\* YYYY-MM-DDTHH:MM:SS.mmmZ for the UTC calendar fields of an instant, the
\* microseconds cut to whole milliseconds
UtcMillisText(instant) ==
    ZeroPad(instant.year, 4) \o <<"-">> \o ZeroPad(instant.month, 2) \o <<"-">>
    \o ZeroPad(instant.day, 2) \o <<"T">> \o ZeroPad(instant.hour, 2) \o <<":">>
    \o ZeroPad(instant.minute, 2) \o <<":">> \o ZeroPad(instant.second, 2) \o <<".">>
    \o ZeroPad(instant.microsecond \div 1000, 3) \o <<"Z">>

\* The text has 24 characters, one "T" and a "Z" at its end
HasStampForm(text) ==
    /\ Len(text) = 24
    /\ Cardinality({k \in 1..Len(text) : text[k] = "T"}) = 1
    /\ text[Len(text)] = "Z"

\* C25: whatever the local zone of the process, now_iso() returns the UTC
\* instant of the call, cut to milliseconds, as YYYY-MM-DDTHH:MM:SS.mmmZ: 24
\* characters, one "T", a trailing "Z".
C25_NowIsoIsUtc ==
    stamp.called =>
        /\ HasStampForm(stamp.text)
        /\ stamp.text = UtcMillisText(stamp.instant)

\* Context c is inside an observable call
InObservableCall(c) == pc[c] # "idle" /\ req[c].mode = "obs"

\* C26: in every observable call, (1) when the handler is invoked the id of the
\* call is bound in the context, and it stays bound while the handler runs and
\* while the entry is written; (2) an entry is written only once the handler
\* has returned or raised, never while it runs; (3) the context is cleared by
\* the last step of the call, after which nothing more is written, and it is
\* clear when control is back with the caller.
C26_BindHandleWriteClear ==
    /\ [](\A c \in Contexts :
            InObservableCall(c) =>
                /\ pc[c] \in {"app", "after_app", "except", "finally"} =>
                       /\ Truthy(req[c].correlation_id)
                       /\ rl_correlation_id[c] = req[c].correlation_id
                /\ pc[c] = "app" => req[c].written = <<>>
                /\ pc[c] = "done" => rl_correlation_id[c] = None)
    /\ [][\A c \in Contexts :
            /\ (InObservableCall(c)' /\ Len(req'[c].written) > Len(req[c].written)) =>
                   /\ pc[c] \in {"after_app", "except"}
                   /\ req[c].handler # "running"
                   /\ rl_correlation_id[c] = req[c].correlation_id
                   /\ rl_correlation_id'[c] = req[c].correlation_id
            /\ (InObservableCall(c) /\ rl_correlation_id[c] # None
                    /\ rl_correlation_id'[c] = None) =>
                   /\ pc[c] = "finally" /\ pc'[c] = "done"
                   /\ req'[c].written = req[c].written
                   /\ log_stream' = log_stream]_vars

\* An observable call wrote its entry and is about to clear the context, which
\* still holds the id of the call.
C26_Witness ==
    \E c \in Contexts :
        /\ pc[c] = "finally" /\ req[c].mode = "obs"
        /\ Len(req[c].written) = 1
        /\ rl_correlation_id[c] = req[c].correlation_id

\* C27: with observable requests in flight in several execution contexts,
\* interleaved in any way, get_correlation_id() in the context of a request
\* returns the id of that request from the moment its handler is invoked until
\* its context is cleared, whatever the other requests do (start, write, clear,
\* finish) in the meantime; and the entry of each request carries its own id.
C27_ConcurrentRequestsKeepOwnId ==
    \A c \in Contexts :
        InObservableCall(c) =>
            /\ pc[c] \in {"app", "after_app", "except", "finally"} =>
                   /\ Truthy(req[c].correlation_id)
                   /\ get_correlation_id(rl_correlation_id, c) = req[c].correlation_id
            /\ \A k \in 1..Len(req[c].written) :
                   req[c].written[k].correlation_id = req[c].correlation_id

\* Two requests with different ids overlapped: the one that started first (it
\* drew the first UUID) is still in its handler and reads its own id, while the
\* one that started second has written its entry, cleared its context and
\* returned.
C27_Witness ==
    /\ pc["ctx1"] = "app" /\ req["ctx1"].mode = "obs"
    /\ req["ctx1"].correlation_id = Uuid(1)
    /\ get_correlation_id(rl_correlation_id, "ctx1") = Uuid(1)
    /\ pc["ctx2"] = "done" /\ req["ctx2"].mode = "obs"
    /\ req["ctx2"].correlation_id = Uuid(2)
    /\ Len(req["ctx2"].written) = 1
    /\ rl_correlation_id["ctx2"] = None

\* C28: in every state of every call, observable or not, the caller's send
\* has received exactly the messages the handler sent so far: each once,
\* unchanged, in the order sent, and nothing else.
C28_ResponseStreamUntouched ==
    \A c \in Contexts : req[c].forwarded = req[c].sent

\* The handler of an observable call sent a response-start message and then a
\* body message, and the call has returned.
C28_Witness ==
    \E c \in Contexts :
        /\ pc[c] = "done" /\ req[c].mode = "obs" /\ req[c].handler = "returned"
        /\ Len(req[c].sent) = 2
        /\ req[c].sent[1].type = "http.response.start"
        /\ req[c].sent[2].type = "http.response.body"
        /\ Len(req[c].written) = 1

\* What validate_log has to report for the lines of a file, when a malformed
\* line is reported with the characters content(text) of its text
ExpectedErrors(lines, content(_)) ==
    LET malformed == LinesOfKind(lines, {"garbage"}, 1)
    IN [i \in 1..Len(malformed) |->
           [line |-> malformed[i], content |-> content(lines[malformed[i]].text)]]

\* The errors validate_log reported, without their messages
ReportedErrors ==
    [i \in 1..Len(validation.errors) |->
        [line |-> validation.errors[i].line, content |-> validation.errors[i].content]]

\* The first 100 characters of a line as it stands in the file
PhysicalContent(text) == first_chars(text, ContentChars)

\* The first 100 characters of a line without the white space around it
StrippedContent(text) == first_chars(strip(text), ContentChars)

\* validate_log returned a result for the current destination
ValidationReturned ==
    validation.called /\ validation.raised = "none" /\ files[get_log_file].exists

\* C29 as stated: in the result validate_log returns, blank and
\* whitespace-only lines are neither records nor errors, every malformed line
\* is reported with its 1-based position among all the lines of the file, and
\* the reported content is taken from the first 100 characters of that line of
\* the file, all of them or the first of them.
C29_LineNumbersAndContent ==
    ValidationReturned =>
        LET lines    == files[get_log_file].lines
            expected == ExpectedErrors(lines, PhysicalContent)
        IN /\ validation.total_records = Len(LinesOfKind(lines, {"object"}, 1))
           /\ validation.error_count = Len(LinesOfKind(lines, {"garbage"}, 1))
           /\ Len(ReportedErrors) = Len(expected)
           /\ \A i \in 1..Len(expected) :
                  /\ ReportedErrors[i].line = expected[i].line
                  /\ IsPrefix(ReportedErrors[i].content, expected[i].content)

\* C29, amended: in the result validate_log returns, blank and whitespace-only
\* lines are neither records nor errors, every malformed line is reported with
\* its 1-based position among all the lines of the file, and the reported
\* content is the first 100 characters of the line after the white space at
\* both its ends was removed, so never more than 100 characters.
C29_LineNumbersAndStrippedContent ==
    ValidationReturned =>
        LET lines == files[get_log_file].lines
        IN /\ validation.total_records = Len(LinesOfKind(lines, {"object"}, 1))
           /\ validation.error_count = Len(LinesOfKind(lines, {"garbage"}, 1))
           /\ ReportedErrors = ExpectedErrors(lines, StrippedContent)
           /\ \A i \in 1..Len(validation.errors) :
                  Len(validation.errors[i].content) <= ContentChars

\* validate_log returned for a file whose first line is empty, whose second
\* line is a long indented malformed line and whose third line is a record: the
\* malformed line is reported as line 2 with 100 characters.
C29_Witness ==
    /\ ValidationReturned
    /\ Len(files[get_log_file].lines) >= 3
    /\ files[get_log_file].lines[1] = EmptyLine
    /\ files[get_log_file].lines[2] = LongLine
    /\ files[get_log_file].lines[3].kind = "object"
    /\ validation.error_count = 1
    /\ validation.errors[1].line = 2
    /\ Len(validation.errors[1].content) = ContentChars
    /\ validation.total_records >= 1

\* C30: a call of validate_log, whatever the destination holds (no file, an
\* empty file, records only, malformed lines), leaves the content and the
\* existence of every file, the directories and the destination setting as
\* they were; and as long as nothing is appended after it, its result is the
\* result a further call returns.
C30_ValidateLogReadOnly ==
    /\ [][ (validation'.called /\ validation' # validation) =>
               UNCHANGED <<files, dirs, current_log_file>> ]_vars
    /\ [](validation.called => validation = validate_result)

\* validate_log has run on a destination that does not exist and left it
\* absent, with no directory made.
C30_Witness ==
    /\ validation.called
    /\ validation = validate_result
    /\ ~files[get_log_file].exists
    /\ dirs = {}

\* The lines of a file that hold a record of writer w, in file order
LinesBy(lines, w) ==
    SelectSeq(lines, LAMBDA line :
        \E i \in 1..Len(line.doc) :
            line.doc[i].k = "writer" /\ line.doc[i].v = JString(w))

\* The records writer w handed to the store so far, in call order
GivenBy(w) == [i \in 1..writers[w].given |-> WriterRecord(w, i)]

\* C31: while several writers call log_record and log_records on one
\* destination, every write() being appended as a whole, every physical line of
\* the file is one whole record line; the records of the calls a writer has
\* returned from are in the file, once each and in the order of its calls,
\* and a writer that is in no call has nothing else there.
C31_ConcurrentWritersWholeLines ==
    LET lines == files[DefaultLogFile].lines
    IN /\ \A i \in 1..Len(lines) : lines[i].kind = "object"
       /\ \A w \in Writers :
              /\ IsPrefix(dump_lines(writers[w].returned), LinesBy(lines, w))
              /\ IsPrefix(LinesBy(lines, w), dump_lines(GivenBy(w)))
              /\ writers[w].pc = "idle" =>
                     LinesBy(lines, w) = dump_lines(writers[w].returned)

\* Both writers have returned; the two records of the log_records call of w1
\* are in lines 1 and 3 of the file, the record of w2 between them.
C31_Witness ==
    LET lines == files[DefaultLogFile].lines
    IN /\ \A w \in Writers : writers[w].pc = "idle" /\ writers[w].raised = "none"
       /\ writers["w1"].op = "log_records" /\ Len(writers["w1"].records) = 2
       /\ Len(lines) = 3
       /\ lines[1] = json_dumps(WriterRecord("w1", 1))
       /\ lines[2] = json_dumps(WriterRecord("w2", 1))
       /\ lines[3] = json_dumps(WriterRecord("w1", 2))

\* C32: in every state, also after set_log_file, the exported LOG_FILE is the
\* file log_record, log_records and validate_log work on, and after --clear-log
\* that file is gone.
C32_OneDestinationForAll ==
    /\ LOG_FILE = get_log_file
    /\ last_call.op = "clear_log" => ~files[get_log_file].exists

\* C33: validate_log of an existing destination, whatever its lines, raises
\* nothing and counts every non-blank line once: total_records + error_count
\* is the number of non-blank lines and error_count is the length of errors.
C33_ValidateLogTotal ==
    (validation.called /\ files[get_log_file].exists) =>
        LET lines == files[get_log_file].lines
        IN /\ validation.raised = "none"
           /\ validation.total_records + validation.error_count
                  = Len(lines) - Len(LinesOfKind(lines, {"blank"}, 1))
           /\ validation.error_count = Len(validation.errors)

\* C34: a call on the observable path whose handler returned normally has no
\* error-shaped entry among the entries written for it, and at most one entry
\* in all, also when the write of its success entry failed.
C34_ErrorEntryOnlyForFailedHandler ==
    \A c \in Contexts :
        (req[c].mode = "obs" /\ req[c].handler = "returned") =>
            /\ \A i \in 1..Len(req[c].written) : "error" \notin DOMAIN req[c].written[i]
            /\ Len(req[c].written) <= 1

C36_BindingScopedUnderNesting ==
    \A c \in Contexts :
        /\ (pc[c] \in {"app", "after_app", "except"} /\ req[c].mode = "obs") =>
               rl_correlation_id[c] = req[c].correlation_id
        /\ (pc[c] = "done" /\ req[c].mode = "obs") =>
               rl_correlation_id[c] = req[c].ctx_before

\* C37: after a log_records call in which serializing or writing record
\* number k failed, the call has raised and the destination holds what it held
\* when the call opened it, followed by the lines of the records before the
\* k-th, in order, and nothing else.
C37_FailingBatchAppendsCleanPrefix ==
    \A w \in Writers :
        LET me == writers[w]
        IN (me.pc = "idle" /\ me.op = "log_records" /\ me.failed_at > 0) =>
               /\ me.raised # "none"
               /\ files[me.log_file].lines =
                      me.before \o dump_lines(SubSeq(me.records, 1, me.failed_at - 1))

\* C38: in every log_record and log_records call the destination read for the
\* open is the destination whose directories the call made, also when
\* set_log_file or reset_log_file ran between the two; so the call opens no
\* file whose directory it did not ensure.
C38_DestinationFixedWithinCall ==
    \A w \in Writers :
        writers[w].log_file # NoPath => writers[w].log_file = writers[w].ensured

\* The spellings str.upper() turns into each of the five level names
Spellings ==
    [DEBUG    |-> {"DEBUG", "debug", "Debug"},
     INFO     |-> {"INFO", "info", "Info"},
     WARNING  |-> {"WARNING", "warning", "Warning"},
     ERROR    |-> {"ERROR", "error", "Error"},
     CRITICAL |-> {"CRITICAL", "critical", "Critical"}]

\* The level a name stands for when spelling counts: itself when it is one of
\* the five names as written, INFO otherwise
AsWritten(level) == IF level \in LevelInputs THEN level ELSE "INFO"

\* The level a name stands for when case does not count: the one of the five
\* it is a spelling of, INFO when it is a spelling of none
AsSpelled(level) ==
    IF \E n \in LevelInputs : level \in Spellings[n]
    THEN CHOOSE n \in LevelInputs : level \in Spellings[n]
    ELSE "INFO"

\* The i-th call added its line to the stream
Written(i) ==
    \E k \in 1..Len(sl_stream) : sl_stream[k].timestamp = utc_isoformat(emits[i].time)

\* C39 as stated: no call raises, a call at a level numerically above the level
\* of a written call is written too, and every name other than DEBUG, INFO,
\* WARNING, ERROR and CRITICAL as written, be it the threshold or the level of
\* the call, counts as INFO: a call is written exactly when its level so read
\* is at or above the threshold so read.
C39_NamesOutsideTheFiveAreInfo ==
    \A i \in 1..Len(emits) :
        /\ emits[i].raised = "none"
        /\ Written(i) <=> Rank(AsWritten(emits[i].level)) >= Rank(AsWritten(logger_level))

\* C39: level filtering is monotone and total once case is set aside: no call
\* raises for any level name, a call whose level is above the level of a
\* written call is written too, and a name that is no spelling of DEBUG, INFO,
\* WARNING, ERROR or CRITICAL in any case, be it the threshold or the level of
\* the call, counts as INFO (20), while another spelling of one of the five
\* counts as that level: a call is written exactly when its level so read is
\* at or above the threshold so read.
C39_LevelFilterMonotoneAndTotal ==
    /\ \A i \in 1..Len(emits) :
           /\ emits[i].raised = "none"
           /\ Written(i) <=> Rank(AsSpelled(emits[i].level)) >= Rank(AsSpelled(logger_level))
    /\ \A i, j \in 1..Len(emits) :
           (Written(i) /\ Rank(AsSpelled(emits[j].level)) > Rank(AsSpelled(emits[i].level)))
               => Written(j)

\* A logger whose threshold is the unknown name TRACE dropped a DEBUG call and
\* wrote a call made with the empty level name.
C39_Witness ==
    /\ logger_level = "TRACE"
    /\ Len(emits) = 2
    /\ emits[1].level = "DEBUG" /\ ~Written(1)
    /\ emits[2].level = "" /\ Written(2)

====
